---- MODULE Spec2Model ----
(***************************************************************************)
(* Model of the large-review pipeline of ai-pr-review:                     *)
(*   - ParallelExecutor (agents/parallel-executor.ts) driven by the        *)
(*     large-review request handler (routes/large-review.ts);              *)
(*   - ChunkOrchestrator (chunking/chunk-orchestrator.ts);                 *)
(*   - ResultAggregator and ReviewSynthesizer (aggregation/);              *)
(*   - LLMProviderFactory, DiffParser and ReviewAgent's reply parsing.     *)
(* Spec           : one large-review request, from the handler's entry to  *)
(*                  its response, with the backend nondeterministic.       *)
(* SpecParse      : the handler up to its first await on bounded diffs.    *)
(* SpecRetry      : the executor with few chunks and many attempts.        *)
(* SpecLive       : the executor with timers that fire.                    *)
(* SpecChunk      : ChunkOrchestrator.createChunks on bounded file lists.  *)
(* SpecSplit      : ChunkOrchestrator.splitLargeFile on bounded diffs.     *)
(* SpecAggregate  : ResultAggregator.aggregate on bounded chunk results.   *)
(* SpecFactory    : LLMProviderFactory.createProvider / clearCache.        *)
(* SpecSynthesize : ReviewSynthesizer.synthesize, called twice in a row.   *)
(* SpecAgent      : ReviewAgent.reviewChunk on bounded reply texts.        *)
(***************************************************************************)
EXTENDS Integers, Sequences, FiniteSets, TLC

\* ------------------------------------------------------------------ bounds
MaxChunks == 4
MaxConcurrency == 2
MaxRetryAttempts == 1

\* ------------------------------------------------- executor: definitions
\* Failures the modelled backend answers with: a RateLimitError (retryable) and an
\* AuthenticationError (not retryable). The executor never looks at the error it
\* caught, so ValidationError and a plain ProviderError take the same path as the
\* AuthenticationError and are not drawn separately ...
BackendErrorKinds ==
    {"RateLimit", "Authentication"}

\* ... and the rejection produced by the timeout race of executeWithTimeout.
TimeoutError == "Timeout"

\* ProviderError.retryable as set by each error class's constructor ("Generic" is a
\* plain ProviderError, whose retryable flag defaults to false).
Retryable(kind) ==
    CASE kind = "RateLimit" -> TRUE
      [] kind = "Authentication" -> FALSE
      [] kind = "Validation" -> FALSE
      [] kind = "Generic" -> FALSE
      [] OTHER -> TRUE

NonRetryableKinds == {k \in BackendErrorKinds : ~Retryable(k)}

\* Risk lists an agent's parsed reply carries (severity of each risk).
AgentRiskLists == {<<"HIGH">>}

VARIABLES
    config,        \* execution section of loadLargeReviewConfig()
    request,       \* what the handler found in the request
    pc,            \* position of the handler / executor coroutine
    chunks,        \* number of chunks passed to executeWithFallback (ids 1..chunks)
    i,             \* executeParallel: start index of the current batch (0-based)
    cstate,        \* per chunk: state of its executeChunkWithRetry promise
    attempt,       \* per chunk: loop variable `attempt` of executeChunkWithRetry
    lastError,     \* per chunk: `lastError` of executeChunkWithRetry
    value,         \* per chunk: value its promise was fulfilled with
    invocations,   \* per chunk: number of agent.reviewChunk calls started
    delays,        \* per chunk: the delays executeChunkWithRetry has passed to sleep()
    calls,         \* underlying reviewChunk calls started and not yet completed
    results,       \* ExecutionResult.results
    errors,        \* ExecutionResult.errors
    progress,      \* ExecutionResult.progress
    progressCallbacks, \* ParallelExecutor.progressCallbacks
    notified,      \* log of the progress callbacks' invocations
    usedProvider,  \* handler: provider whose execution produced executionResult
    response,      \* what the handler answered
    options,       \* ChunkOrchestrator.options
    files,         \* createChunks: the argument
    sortedFiles,   \* createChunks: sortedFiles
    packed,        \* createChunks: what binPackFiles returned
    optimized,     \* createChunks: what optimizeChunks returned
    planned,       \* createChunks: the list returned
    planState,     \* "idle" before createChunks was called, "done" after it returned
    aggResults,    \* ResultAggregator.aggregate: the argument
    dedupRisks,    \* aggregate: what deduplicateIssues returned
    dedupSuggestions, \* aggregate: what deduplicateSuggestions returned
    aggRisks,      \* AggregatedResult.risks
    aggSuggestions, \* AggregatedResult.suggestions
    aggState,      \* "idle" before aggregate was called, "done" after it returned
    instances,     \* LLMProviderFactory.instances (cache key -> provider instance)
    created,       \* number of provider instances constructed so far (instance ids 1..created)
    initialized,   \* instances whose initialize() has completed
    pending,       \* createProvider calls waiting at `await provider.initialize(config)`
    returned,      \* log of the createProvider calls that have settled
    cacheEpoch,    \* number of clearCache calls that emptied a non-empty cache
    overlapped,    \* some factory operation started while a createProvider call was pending
    splitFile,     \* splitLargeFile: the argument
    splitParts,    \* splitLargeFile: the list returned
    splitState,    \* "idle" before splitLargeFile was called, "done" after it returned
    synAggregated, \* ReviewSynthesizer.synthesize: the AggregatedResult object passed in
    synBefore,     \* the value of that object when the first call started
    synIncludeLow, \* config.aggregation.includeLowSeverity
    synReports,    \* SynthesizedReview.content of the synthesize calls made so far
    reply,         \* ReviewAgent.reviewChunk: response.content of the generation call
    parsed,        \* reviewChunk: what parseReviewResponse produced
    agentState,    \* "idle" before reviewChunk's generation call returned, "done" after
    requestDiff,   \* req.body.diff, as its lines
    parseResult,   \* what DiffParser.parseToFiles returned
    earlyResponse, \* the response the handler sent without running the pipeline, if any
    invoked        \* pipeline stages the handler called after parsing

executorVars == <<config, request, pc, chunks, i, cstate, attempt, lastError, value,
                  invocations, delays, calls, results, errors, progress, progressCallbacks, notified,
                  usedProvider, response>>

plannerVars == <<options, files, sortedFiles, packed, optimized, planned, planState>>

aggregatorVars == <<aggResults, dedupRisks, dedupSuggestions, aggRisks, aggSuggestions, aggState>>

factoryVars == <<instances, created, initialized, pending, returned, cacheEpoch, overlapped>>

splitterVars == <<splitFile, splitParts, splitState>>

synthesizerVars == <<synAggregated, synBefore, synIncludeLow, synReports>>

agentVars == <<reply, parsed, agentState>>

parserVars == <<requestDiff, parseResult, earlyResponse, invoked>>

renderVars == <<synthesizerVars, agentVars, parserVars>>

vars == <<executorVars, plannerVars, aggregatorVars, factoryVars, splitterVars, renderVars>>

chunkVars == <<cstate, attempt, lastError, value, invocations, delays, calls>>
execVars == <<i, results, errors, progress, notified>>
fixedVars == <<config, plannerVars, aggregatorVars, factoryVars, splitterVars, renderVars>>

ChunkIds == 1..chunks

Min(a, b) == IF a <= b THEN a ELSE b

\* chunks.slice(i, i + concurrency), as the set of the ids in the slice.
Batch(start) == {c \in ChunkIds : start < c /\ c <= start + config.maxConcurrentAgents}

\* Slip: any completing call of the chunk settles the attempt that is waiting now.
Live_AnyAttempt(call) == cstate[call.chunk] = "running"

\* The race of executeWithTimeout the call belongs to is still undecided: the chunk
\* is waiting on exactly this attempt.
Live(call) == cstate[call.chunk] = "running" /\ attempt[call.chunk] = call.attempt

Settled(c) == cstate[c] \in {"fulfilled", "rejected"}

SettledOk == {c \in ChunkIds : cstate[c] = "fulfilled"}
SettledFailed == {c \in ChunkIds : cstate[c] = "rejected"}

\* ------------------------------------------------------------------- Init
\* DEFAULT_OPTIONS of the orchestrator, scaled down (sizes in units of 2000 characters).
PlannerIdle ==
    /\ options = [maxChunkSize |-> 4, maxFilesPerChunk |-> 10, minChunkSize |-> 1,
                  prioritizeHighRisk |-> TRUE]
    /\ files = << >>
    /\ sortedFiles = << >>
    /\ packed = << >>
    /\ optimized = << >>
    /\ planned = << >>
    /\ planState = "idle"

\* No aggregate call yet.
AggregatorIdle ==
    /\ aggResults = << >>
    /\ dedupRisks = << >>
    /\ dedupSuggestions = << >>
    /\ aggRisks = << >>
    /\ aggSuggestions = << >>
    /\ aggState = "idle"

\* private static instances = new Map(): nothing cached, nothing constructed.
FactoryIdle ==
    /\ instances = << >>
    /\ created = 0
    /\ initialized = {}
    /\ pending = {}
    /\ returned = << >>
    /\ cacheEpoch = 0
    /\ overlapped = FALSE

\* No splitLargeFile call yet.
SplitterIdle ==
    /\ splitFile = [path |-> << >>, diff |-> << >>, category |-> "low-risk", complexity |-> 0]
    /\ splitParts = << >>
    /\ splitState = "idle"

\* No synthesize call yet.
SynthesizerIdle ==
    /\ synAggregated = [risks |-> << >>, suggestions |-> << >>, files |-> << >>]
    /\ synBefore = synAggregated
    /\ synIncludeLow = FALSE
    /\ synReports = << >>

\* No reviewChunk reply yet.
AgentIdle ==
    /\ reply = << >>
    /\ parsed = [outcome |-> "none", summary |-> << >>, risks |-> << >>, suggestions |-> << >>]
    /\ agentState = "idle"

\* No diff parsed yet.
ParserIdle ==
    /\ requestDiff = << >>
    /\ parseResult = [files |-> << >>, totalAdditions |-> 0, totalDeletions |-> 0]
    /\ earlyResponse = [status |-> 0, review |-> "none", chunks |-> 0, files |-> 0,
                        totalTokens |-> 0, providers |-> << >>]
    /\ invoked = << >>

RenderIdle ==
    /\ SynthesizerIdle
    /\ AgentIdle
    /\ ParserIdle

\* The handler was created with one of the given execution configurations and has
\* not received the request yet.
InitOf(configs) ==
    /\ PlannerIdle
    /\ AggregatorIdle
    /\ FactoryIdle
    /\ SplitterIdle
    /\ RenderIdle
    /\ config \in configs
    /\ request = "none"
    /\ pc = "handler"
    /\ chunks = 0
    /\ i = 0
    /\ cstate = << >>
    /\ attempt = << >>
    /\ lastError = << >>
    /\ value = << >>
    /\ invocations = << >>
    /\ delays = << >>
    /\ calls = {}
    /\ results = << >>
    /\ errors = << >>
    /\ progress = [total |-> 0, completed |-> 0, failed |-> 0, inProgress |-> 0]
    /\ progressCallbacks = << >>
    /\ notified = << >>
    /\ usedProvider = 0
    /\ response = "none"

Init ==
    InitOf([maxConcurrentAgents : 1..MaxConcurrency,
            retryAttempts : 0..MaxRetryAttempts,
            fallbackToSummary : BOOLEAN])

\* =============================================================== DiffParser
MaxDiffLines == 4

\* A diff is modelled by its lines (diff.split('\n')), a line by what the parser can
\* tell about it:
\*   "gitHeader"   diff --git a/x.ts b/x.ts
\*   "bareHeader"  a line that starts with `diff --git` and names no a/ and b/ path
\*   "newFile"     +++ b/x.ts
\*   "oldFile"     --- a/x.ts
\*   "added"       a line starting with one `+`
\*   "removed"     a line starting with one `-`
\*   "context"     any other line that is not blank
\*   "blank"       an empty line; the empty string is the diff <<"blank">>
PathLines == {"gitHeader", "newFile", "oldFile"}
DiffLines == PathLines \cup {"bareHeader", "added", "removed", "context", "blank"}

\* The diffs with 1..MaxDiffLines lines.
RequestDiffs == UNION {[1..n -> DiffLines] : n \in 1..MaxDiffLines}

\* req.body without a diff.
Undefined == << >>

\* line.startsWith('diff --git')
StartsSection(line) == line \in {"gitHeader", "bareHeader"}

\* The loop of splitDiffIntoFiles over lines[k..], with `sections` and
\* `currentSection` as they are before line k, and the push of the last section.
RECURSIVE SplitSectionsFrom(_, _, _, _)
SplitSectionsFrom(lines, k, sections, currentSection) ==
    IF k > Len(lines)
    THEN (IF Len(currentSection) > 0 THEN Append(sections, currentSection) ELSE sections)
    ELSE IF StartsSection(lines[k]) /\ Len(currentSection) > 0
         THEN SplitSectionsFrom(lines, k + 1, Append(sections, currentSection), <<lines[k]>>)
         ELSE SplitSectionsFrom(lines, k + 1, sections, Append(currentSection, lines[k]))

\* splitDiffIntoFiles: the sections, without those that are blank
\* (section.trim().length > 0).
SplitDiffIntoFiles(lines) ==
    SelectSeq(SplitSectionsFrom(lines, 1, << >>, << >>),
              LAMBDA section : \E k \in DOMAIN section : section[k] # "blank")

\* Slip: a section without a path gets a placeholder path.
ExtractFilePath_Default(section) ==
    IF \E k \in DOMAIN section : section[k] = "gitHeader" THEN "gitHeader"
    ELSE IF \E k \in DOMAIN section : section[k] = "newFile" THEN "newFile"
    ELSE IF \E k \in DOMAIN section : section[k] = "oldFile" THEN "oldFile"
    ELSE "unknown"

\* extractFilePath: the line the path is taken from, "null" if there is none.
ExtractFilePath(section) ==
    IF \E k \in DOMAIN section : section[k] = "gitHeader" THEN "gitHeader"
    ELSE IF \E k \in DOMAIN section : section[k] = "newFile" THEN "newFile"
    ELSE IF \E k \in DOMAIN section : section[k] = "oldFile" THEN "oldFile"
    ELSE "null"

CountLines(section, line) == Cardinality({k \in DOMAIN section : section[k] = line})

\* parseFileSection of a section that has a path.
ParseFileSection(section) ==
    [path |-> ExtractFilePath(section),
     additions |-> CountLines(section, "added"),
     deletions |-> CountLines(section, "removed"),
     diff |-> section]

\* The loop of parseToFiles from section k on.
RECURSIVE ParseSectionsFrom(_, _, _)
ParseSectionsFrom(fileSections, k, result) ==
    IF k > Len(fileSections) THEN result
    ELSE IF ExtractFilePath(fileSections[k]) = "null"
         THEN ParseSectionsFrom(fileSections, k + 1, result)
         ELSE LET fileChange == ParseFileSection(fileSections[k])
              IN ParseSectionsFrom(fileSections, k + 1,
                    [files |-> Append(result.files, fileChange),
                     totalAdditions |-> result.totalAdditions + fileChange.additions,
                     totalDeletions |-> result.totalDeletions + fileChange.deletions])

\* parseToFiles
ParseToFiles(lines) ==
    ParseSectionsFrom(SplitDiffIntoFiles(lines), 1,
        [files |-> << >>, totalAdditions |-> 0, totalDeletions |-> 0])

\* The body of the response sent when no file was parsed (large-review.ts 90-101).
NoChangesResponse ==
    [status |-> 200, review |-> "No file changes detected in the diff.",
     chunks |-> 0, files |-> 0, totalTokens |-> 0, providers |-> << >>]

\* The response of the catch block.
FailureResponse ==
    [status |-> 500, review |-> "none",
     chunks |-> 0, files |-> 0, totalTokens |-> 0, providers |-> << >>]

\* ------------------------------------------------ executor: the operations
\* batch.map(chunk => this.executeChunkWithRetry(chunk, agent)): every chunk of the
\* slice runs executeChunkWithRetry up to its first await, i.e. attempt 0 has started
\* agent.reviewChunk inside executeWithTimeout.
DispatchBatch(start, n) ==
    LET batch == {c \in 1..n : start < c /\ c <= start + config.maxConcurrentAgents} IN
    /\ cstate' = [c \in 1..n |-> IF c \in batch THEN "running"
                                 ELSE IF c \in DOMAIN cstate THEN cstate[c] ELSE "pending"]
    /\ attempt' = [c \in 1..n |-> IF c \in DOMAIN attempt /\ c \notin batch THEN attempt[c] ELSE 0]
    /\ lastError' = [c \in 1..n |-> IF c \in DOMAIN lastError /\ c \notin batch
                                    THEN lastError[c] ELSE "null"]
    /\ value' = [c \in 1..n |-> IF c \in DOMAIN value /\ c \notin batch
                                THEN value[c] ELSE [attempt |-> 0, risks |-> << >>]]
    /\ invocations' = [c \in 1..n |-> IF c \in batch THEN 1
                                      ELSE IF c \in DOMAIN invocations THEN invocations[c] ELSE 0]
    /\ delays' = [c \in 1..n |-> IF c \in DOMAIN delays /\ c \notin batch
                                 THEN delays[c] ELSE << >>]
    /\ calls' = calls \cup {[chunk |-> c, attempt |-> 0] : c \in batch}

\* The diffs the executor is exercised with: none, the empty string, and a diff of
\* MaxChunks files.
RECURSIVE HeaderLines(_)
HeaderLines(n) == IF n = 0 THEN << >> ELSE <<"gitHeader">> \o HeaderLines(n - 1)

ExecutorDiffs == {Undefined, <<"blank">>, HeaderLines(MaxChunks)}

\* The handler body up to its first await (large-review.ts 70-130) for a request with
\* diff d, including the synchronous start of executeWithFallback -> executeParallel
\* -> first batch.
\*   d is undefined       : `diff.length` throws, the catch answers 500
\*   d parses to no file  : the no-changes report is sent
\*   otherwise            : createChunks returned n >= 1 chunks (never more than files)
HandlerStartOf(diffs, counts) ==
    /\ pc = "handler"
    /\ \E d \in diffs, n \in counts :
        /\ requestDiff' = d
        /\ parseResult' = (IF d = Undefined THEN parseResult ELSE ParseToFiles(d))
        /\ request' = (IF d = Undefined THEN "missing"
                       ELSE IF Len(parseResult'.files) = 0 THEN "nofiles" ELSE "files")
        /\ IF request' = "files"
           THEN /\ n <= Len(parseResult'.files)
                /\ invoked' = <<"createChunks", "executeWithFallback">>
                /\ chunks' = n
                /\ progressCallbacks' = <<"log">>
                /\ progress' = [total |-> n, completed |-> 0, failed |-> 0, inProgress |-> 0]
                /\ i' = 0
                /\ DispatchBatch(0, n)
                /\ pc' = "await"
                /\ UNCHANGED <<results, errors, notified, usedProvider, response, earlyResponse>>
           ELSE /\ response' = (IF request' = "missing" THEN "failure" ELSE "noChanges")
                /\ earlyResponse' = (IF request' = "missing" THEN FailureResponse
                                     ELSE NoChangesResponse)
                /\ pc' = "done"
                /\ UNCHANGED <<chunks, chunkVars, execVars, progressCallbacks, usedProvider,
                               invoked>>
    /\ UNCHANGED <<config, plannerVars, aggregatorVars, factoryVars, splitterVars,
                   synthesizerVars, agentVars>>

HandlerStart == HandlerStartOf(ExecutorDiffs, 1..MaxChunks)

\* The underlying reviewChunk call of some attempt completes with a parsed reply.
\* Promise.race: it settles the attempt only if the attempt is still waiting for it.
CallSucceeds(call, risks) ==
    /\ call \in calls
    /\ calls' = calls \ {call}
    /\ IF Live(call)
       THEN /\ cstate' = [cstate EXCEPT ![call.chunk] = "fulfilled"]
            /\ value' = [value EXCEPT ![call.chunk] = [attempt |-> call.attempt, risks |-> risks]]
       ELSE UNCHANGED <<cstate, value>>
    /\ UNCHANGED <<attempt, lastError, invocations, delays>>
    /\ UNCHANGED <<fixedVars, request, pc, chunks, execVars, progressCallbacks, usedProvider, response>>

RECURSIVE Pow2(_)
Pow2(k) == IF k = 0 THEN 1 ELSE 2 * Pow2(k - 1)

BackoffBaseMs == 1000
BackoffCapMs == 5000

\* Slip: the delay is not capped.
BackoffDelay_Uncapped(k) == BackoffBaseMs * Pow2(k)

\* const delay = Math.min(1000 * Math.pow(2, attempt), 5000)
BackoffDelay(k) == Min(BackoffBaseMs * Pow2(k), BackoffCapMs)

\* The catch block of executeChunkWithRetry for an attempt that failed with `kind`:
\* lastError is set and, if attempts are left, sleep(delay) is awaited.
AttemptFailed(c, kind) ==
    /\ lastError' = [lastError EXCEPT ![c] = kind]
    /\ cstate' = [cstate EXCEPT ![c] =
                    IF attempt[c] < config.retryAttempts THEN "backoff" ELSE "rejected"]
    /\ delays' = [delays EXCEPT ![c] =
                    IF attempt[c] < config.retryAttempts
                    THEN Append(@, BackoffDelay(attempt[c])) ELSE @]

\* The underlying call fails: reviewChunk rethrows a plain Error carrying the message.
CallFails(call, kind) ==
    /\ call \in calls
    /\ calls' = calls \ {call}
    /\ IF Live(call)
       THEN AttemptFailed(call.chunk, kind)
       ELSE UNCHANGED <<cstate, lastError, delays>>
    /\ UNCHANGED <<attempt, value, invocations>>
    /\ UNCHANGED <<fixedVars, request, pc, chunks, execVars, progressCallbacks, usedProvider, response>>

\* Slip: the call is awaited without the race against the timer.
Timeout_NoRace(c) ==
    /\ FALSE
    /\ UNCHANGED vars

\* The timer of executeWithTimeout fires before the call completed: the race rejects
\* with Error('Timeout'); the underlying call is not cancelled and stays in `calls`.
Timeout(c) ==
    /\ c \in DOMAIN cstate
    /\ cstate[c] = "running"
    /\ AttemptFailed(c, TimeoutError)
    /\ UNCHANGED <<attempt, value, invocations, calls>>
    /\ UNCHANGED <<fixedVars, request, pc, chunks, execVars, progressCallbacks, usedProvider, response>>

\* sleep(delay) is over: attempt++ and the next iteration starts agent.reviewChunk again.
BackoffElapsed(c) ==
    /\ c \in DOMAIN cstate
    /\ cstate[c] = "backoff"
    /\ cstate' = [cstate EXCEPT ![c] = "running"]
    /\ attempt' = [attempt EXCEPT ![c] = @ + 1]
    /\ invocations' = [invocations EXCEPT ![c] = @ + 1]
    /\ calls' = calls \cup {[chunk |-> c, attempt |-> attempt[c] + 1]}
    /\ UNCHANGED <<lastError, value, delays>>
    /\ UNCHANGED <<fixedVars, request, pc, chunks, execVars, progressCallbacks, usedProvider, response>>

\* notifyProgress: every registered callback is called with the progress object.
\* settledOk / settledFailed record, for the properties only, how many chunk promises
\* were fulfilled / rejected at the moment of the call.
NotifyProgress(log, prog) ==
    log \o [k \in 1..Len(progressCallbacks) |->
              [callback |-> progressCallbacks[k],
               total |-> prog.total, completed |-> prog.completed,
               failed |-> prog.failed, inProgress |-> prog.inProgress,
               settledOk |-> Cardinality(SettledOk),
               settledFailed |-> Cardinality(SettledFailed)]]

AgentResult(c) ==
    [chunkId |-> c, provider |-> "agent", attempt |-> value[c].attempt, risks |-> value[c].risks]

\* Slip: a rejected chunk is counted but not reported in the error list.
RECURSIVE ProcessBatch_DropErrors(_, _, _)
ProcessBatch_DropErrors(c, last, st) ==
    IF c > last THEN st
    ELSE LET prog == IF cstate[c] = "fulfilled"
                     THEN [st.progress EXCEPT !.completed = @ + 1]
                     ELSE [st.progress EXCEPT !.failed = @ + 1]
             next == [results |-> IF cstate[c] = "fulfilled"
                                  THEN Append(st.results, AgentResult(c)) ELSE st.results,
                      errors |-> st.errors,
                      progress |-> prog,
                      notified |-> NotifyProgress(st.notified, prog)]
         IN ProcessBatch_DropErrors(c + 1, last, next)

\* The loop over batchResults (lines 58-75), from chunk c to the last chunk of the batch.
RECURSIVE ProcessBatch(_, _, _)
ProcessBatch(c, last, st) ==
    IF c > last THEN st
    ELSE LET prog == IF cstate[c] = "fulfilled"
                     THEN [st.progress EXCEPT !.completed = @ + 1]
                     ELSE [st.progress EXCEPT !.failed = @ + 1]
             next == [results |-> IF cstate[c] = "fulfilled"
                                  THEN Append(st.results, AgentResult(c)) ELSE st.results,
                      errors |-> IF cstate[c] = "fulfilled" THEN st.errors
                                 ELSE Append(st.errors, [chunkId |-> c, error |-> lastError[c]]),
                      progress |-> prog,
                      notified |-> NotifyProgress(st.notified, prog)]
         IN ProcessBatch(c + 1, last, next)

\* Promise.any-like slip: resolves as soon as one chunk of the batch has settled.
BatchAllSettled_Any(start) == \E c \in Batch(start) : Settled(c)

\* Promise.allSettled(batch.map(...)) resolves when every promise of the batch has settled.
BatchAllSettled(start) == \A c \in Batch(start) : Settled(c)

\* Promise.allSettled of the current batch has resolved: the batch results are
\* processed and, without suspending, the loop dispatches the next slice or returns.
BatchSettled ==
    /\ pc = "await"
    /\ BatchAllSettled(i)
    /\ LET last == Min(i + config.maxConcurrentAgents, chunks)
           st == ProcessBatch(i + 1, last,
                    [results |-> results, errors |-> errors,
                     progress |-> progress, notified |-> notified])
       IN /\ results' = st.results
          /\ errors' = st.errors
          /\ progress' = st.progress
          /\ notified' = st.notified
          /\ i' = i + config.maxConcurrentAgents
          /\ IF i + config.maxConcurrentAgents < chunks
             THEN /\ DispatchBatch(i + config.maxConcurrentAgents, chunks)
                  /\ pc' = "await"
             ELSE /\ pc' = "parallelDone"
                  /\ UNCHANGED chunkVars
    /\ UNCHANGED <<fixedVars, request, chunks, progressCallbacks, usedProvider, response>>

\* Slip: the placeholder carries no finding.
FallbackSummary_NoRisk(c) ==
    [chunkId |-> c, provider |-> "fallback", attempt |-> 0, risks |-> << >>]

\* generateFallbackSummary
FallbackSummary(c) ==
    [chunkId |-> c, provider |-> "fallback", attempt |-> 0, risks |-> <<"MEDIUM">>]

FallbackNumerator == 3
FallbackDenominator == 10

\* result.errors.length > chunks.length * 0.3
FallbackNeeded(errs, n) ==
    /\ config.fallbackToSummary
    /\ Len(errs) * FallbackDenominator > n * FallbackNumerator

\* executeWithFallback after `await this.executeParallel(...)` (lines 144-165).
FallbackCheck ==
    /\ pc = "parallelDone"
    /\ IF FallbackNeeded(errors, chunks)
       THEN /\ results' = results \o [k \in 1..Len(errors) |-> FallbackSummary(errors[k].chunkId)]
            /\ errors' = << >>
       ELSE UNCHANGED <<results, errors>>
    /\ pc' = "fallbackDone"
    /\ UNCHANGED <<fixedVars, request, chunks, chunkVars, i, progress, notified,
                   progressCallbacks, usedProvider, response>>

\* The handler after `await parallelExecutor.executeWithFallback(...)`: the provider
\* loop breaks, the results are aggregated and synthesized, the report is sent.
HandlerRespond ==
    /\ pc = "fallbackDone"
    /\ usedProvider' = 1
    /\ response' = "report"
    /\ pc' = "done"
    /\ UNCHANGED <<fixedVars, request, chunks, chunkVars, execVars, progressCallbacks>>

\* The steps after the handler's first await.
PipelineStep ==
    \/ \E call \in calls, risks \in AgentRiskLists : CallSucceeds(call, risks)
    \/ \E call \in calls, kind \in BackendErrorKinds : CallFails(call, kind)
    \/ \E c \in ChunkIds : Timeout(c)
    \/ \E c \in ChunkIds : BackoffElapsed(c)
    \/ BatchSettled
    \/ FallbackCheck
    \/ HandlerRespond

Next ==
    \/ HandlerStart
    \/ PipelineStep

Spec == Init /\ [][Next]_vars

\* The same pipeline with few chunks and many attempts: one chunk at a time, up to
\* MaxBackoffAttempts retries, so that the backoff delay reaches its cap.
MaxBackoffChunks == 1
MaxBackoffAttempts == 4

InitRetry ==
    InitOf([maxConcurrentAgents : {1},
            retryAttempts : 0..MaxBackoffAttempts,
            fallbackToSummary : BOOLEAN])

NextRetry ==
    \/ HandlerStartOf({HeaderLines(MaxBackoffChunks)}, 1..MaxBackoffChunks)
    \/ PipelineStep

SpecRetry == InitRetry /\ [][NextRetry]_vars

\* Timers fire and resolved promises run their continuations: the timeout of
\* executeWithTimeout, the sleep of the backoff, and the continuation of
\* `await Promise.allSettled(...)`. Nothing is assumed about the agent calls.
MaxLiveChunks == 3

TimersFire ==
    /\ \A c \in 1..MaxLiveChunks : WF_vars(Timeout(c)) /\ WF_vars(BackoffElapsed(c))
    /\ WF_vars(BatchSettled)

NextLive ==
    \/ HandlerStartOf({HeaderLines(MaxLiveChunks)}, 1..MaxLiveChunks)
    \/ PipelineStep

SpecLive == Init /\ [][NextLive]_vars /\ TimersFire

\* The handler up to its first await, on every diff of up to MaxDiffLines lines.
NextParse == HandlerStartOf(RequestDiffs, 1..MaxChunks)

SpecParse == Init /\ [][NextParse]_vars

TypeOK ==
    /\ pc \in {"handler", "await", "parallelDone", "fallbackDone", "done"}
    /\ response \in {"none", "noChanges", "report", "failure"}
    /\ \A c \in ChunkIds : cstate[c] \in {"pending", "running", "backoff", "fulfilled", "rejected"}

\* ======================================================== ChunkOrchestrator
MaxFiles == 3

\* diff.length of a file, and the option values the planner is exercised with, in
\* units of 2000 characters: two small files fit a chunk and leave it undersized, a
\* small and a medium file fill it, two medium files do not fit together, and a
\* large file exceeds the maximum alone.
FileSizes == {1, 3, 5}
MaxChunkSizeValues == {4}
MaxFilesPerChunkValues == {1, 2}
MinChunkSizeValues == {3}
\* FileChange.complexity: a small change, and a change large enough for the average
\* complexity to outweigh a difference in risk weight.
ComplexityValues == {2, 81}

\* (category, path mentions auth/security/password) as the diff parser assigns them:
\* a path with a high-risk keyword is categorised high-risk.
CategoryValues ==
    {[category |-> "high-risk", secure |-> TRUE], [category |-> "high-risk", secure |-> FALSE],
     [category |-> "medium-risk", secure |-> FALSE], [category |-> "low-risk", secure |-> FALSE]}

\* A FileChange without its path: the fields createChunks reads.
FileAttributes ==
    {[size |-> sz, category |-> cv.category, secure |-> cv.secure, complexity |-> cx] :
        sz \in FileSizes, cv \in CategoryValues, cx \in ComplexityValues}

\* The file list with the given attributes; the k-th file has path k.
FileList(a) ==
    [k \in DOMAIN a |-> [path |-> k, size |-> a[k].size, category |-> a[k].category,
                         secure |-> a[k].secure, complexity |-> a[k].complexity]]

RECURSIVE SumSizes(_)
SumSizes(fs) == IF fs = << >> THEN 0 ELSE Head(fs).size + SumSizes(Tail(fs))

RECURSIVE SumComplexity(_)
SumComplexity(fs) == IF fs = << >> THEN 0 ELSE Head(fs).complexity + SumComplexity(Tail(fs))

\* riskPriority of sortFilesByPriority
RiskPriority(category) ==
    CASE category = "high-risk" -> 3
      [] category = "medium-risk" -> 2
      [] OTHER -> 1

\* The comparator of sortFilesByPriority returns a negative number: a sorts before b.
FileBefore(a, b) ==
    IF RiskPriority(a.category) # RiskPriority(b.category)
    THEN RiskPriority(b.category) - RiskPriority(a.category) < 0
    ELSE b.complexity - a.complexity < 0

\* [...files].sort(comparator): Array.prototype.sort is stable, so an element goes
\* behind the elements that sort before it and the earlier elements that tie with it.
SortFilesByPriority(fs) ==
    LET pos(k) == 1 + Cardinality({j \in DOMAIN fs :
                        j # k /\ (FileBefore(fs[j], fs[k])
                                    \/ (~FileBefore(fs[k], fs[j]) /\ j < k))})
    IN [p \in DOMAIN fs |-> fs[CHOOSE k \in DOMAIN fs : pos(k) = p]]

\* estimateTokens: Math.ceil(charCount / 4)
EstimateTokens(charCount) == (charCount + 3) \div 4

\* Slip: the size test of canFit is dropped.
CanFit_CountOnly(chunk, fileSize) ==
    Len(chunk.files) < options.maxFilesPerChunk

\* canFit of binPackFiles
CanFit(chunk, fileSize) ==
    /\ chunk.totalSize + fileSize <= options.maxChunkSize
    /\ Len(chunk.files) < options.maxFilesPerChunk

\* One iteration of the loop of binPackFiles: st = [chunks, chunkId].
PlaceFile(st, file) ==
    LET fits == {k \in DOMAIN st.chunks : CanFit(st.chunks[k], file.size)} IN
    IF fits # {}
    THEN LET k == CHOOSE m \in fits : \A o \in fits : m <= o
             chunk == st.chunks[k]
         IN [st EXCEPT !.chunks[k] =
                [chunk EXCEPT !.files = Append(chunk.files, file),
                              !.totalSize = chunk.totalSize + file.size,
                              !.estimatedTokens = EstimateTokens(chunk.totalSize + file.size)]]
    ELSE [chunks |-> Append(st.chunks,
                        [id |-> st.chunkId, files |-> <<file>>, totalSize |-> file.size,
                         priority |-> 0, estimatedTokens |-> EstimateTokens(file.size),
                         riskLevel |-> file.category]),
          chunkId |-> st.chunkId + 1]

RECURSIVE BinPackFrom(_, _)
BinPackFrom(st, fs) ==
    IF fs = << >> THEN st.chunks ELSE BinPackFrom(PlaceFile(st, Head(fs)), Tail(fs))

\* binPackFiles
BinPackFiles(fs) == BinPackFrom([chunks |-> << >>, chunkId |-> 0], fs)

\* getMergedRiskLevel: the first of high, medium, low that one of the two has.
GetMergedRiskLevel(level1, level2) ==
    IF "high-risk" \in {level1, level2} THEN "high-risk"
    ELSE IF "medium-risk" \in {level1, level2} THEN "medium-risk"
    ELSE "low-risk"

Max(a, b) == IF a >= b THEN a ELSE b

\* Slip: the merge does not look at the combined size.
ShouldMerge_AnySize(chunk, nextChunk) ==
    chunk.totalSize < options.minChunkSize

\* optimizeChunks: the two tests that let chunk i absorb chunk i + 1.
ShouldMerge(chunk, nextChunk) ==
    /\ chunk.totalSize < options.minChunkSize
    /\ chunk.totalSize + nextChunk.totalSize <= options.maxChunkSize

\* Slip: the merged chunk keeps only its own files.
MergeChunks_DropsFiles(chunk, nextChunk) ==
    [id |-> chunk.id,
     files |-> chunk.files,
     totalSize |-> chunk.totalSize + nextChunk.totalSize,
     priority |-> Max(chunk.priority, nextChunk.priority),
     estimatedTokens |-> EstimateTokens(chunk.totalSize + nextChunk.totalSize),
     riskLevel |-> GetMergedRiskLevel(chunk.riskLevel, nextChunk.riskLevel)]

MergeChunks(chunk, nextChunk) ==
    [id |-> chunk.id,
     files |-> chunk.files \o nextChunk.files,
     totalSize |-> chunk.totalSize + nextChunk.totalSize,
     priority |-> Max(chunk.priority, nextChunk.priority),
     estimatedTokens |-> EstimateTokens(chunk.totalSize + nextChunk.totalSize),
     riskLevel |-> GetMergedRiskLevel(chunk.riskLevel, nextChunk.riskLevel)]

\* The loop of optimizeChunks from index k (1-based) on.
RECURSIVE OptimizeFrom(_, _, _)
OptimizeFrom(cs, k, acc) ==
    IF k > Len(cs) THEN acc
    ELSE IF k < Len(cs) /\ ShouldMerge(cs[k], cs[k + 1])
         THEN OptimizeFrom(cs, k + 2, Append(acc, MergeChunks(cs[k], cs[k + 1])))
         ELSE OptimizeFrom(cs, k + 1, Append(acc, cs[k]))

OptimizeChunks(cs) == OptimizeFrom(cs, 1, << >>)

RiskWeight(level) ==
    CASE level = "high-risk" -> 100
      [] level = "medium-risk" -> 50
      [] OTHER -> 10

HighRiskWeight == 20
SecurityBonus == 50

\* calculateChunkPriority: Math.round of the sum; the average complexity is the only
\* fractional term, and Math.round rounds halves up.
CalculateChunkPriority(chunk) ==
    LET n == Len(chunk.files)
        highRiskCount == Cardinality({k \in 1..n : chunk.files[k].category = "high-risk"})
        hasSecurityFiles == \E k \in 1..n : chunk.files[k].secure
    IN RiskWeight(chunk.riskLevel)
         + highRiskCount * HighRiskWeight
         + (2 * SumComplexity(chunk.files) + n) \div (2 * n)
         + (IF hasSecurityFiles THEN SecurityBonus ELSE 0)

\* chunks.map(chunk => ({...chunk, priority: calculateChunkPriority(chunk)}))
RECURSIVE ScoreChunks(_)
ScoreChunks(cs) ==
    IF cs = << >> THEN << >>
    ELSE <<[Head(cs) EXCEPT !.priority = CalculateChunkPriority(Head(cs))]>>
            \o ScoreChunks(Tail(cs))

\* Slip: the sort is left out.
PrioritizeChunks_Unsorted(cs) == ScoreChunks(cs)

\* prioritizeChunks: map to {...chunk, priority}, then a stable sort, higher first.
PrioritizeChunks(cs) ==
    LET scored == ScoreChunks(cs)
        pos(k) == 1 + Cardinality({j \in DOMAIN cs :
                        j # k /\ (scored[j].priority > scored[k].priority
                                    \/ (scored[j].priority = scored[k].priority /\ j < k))})
    IN [p \in DOMAIN cs |-> scored[CHOOSE k \in DOMAIN cs : pos(k) = p]]

ExecutorIdle ==
    /\ config = [maxConcurrentAgents |-> 1, retryAttempts |-> 0, fallbackToSummary |-> FALSE]
    /\ request = "none"
    /\ pc = "handler"
    /\ chunks = 0
    /\ i = 0
    /\ cstate = << >>
    /\ attempt = << >>
    /\ lastError = << >>
    /\ value = << >>
    /\ invocations = << >>
    /\ delays = << >>
    /\ calls = {}
    /\ results = << >>
    /\ errors = << >>
    /\ progress = [total |-> 0, completed |-> 0, failed |-> 0, inProgress |-> 0]
    /\ progressCallbacks = << >>
    /\ notified = << >>
    /\ usedProvider = 0
    /\ response = "none"

\* new ChunkOrchestrator(options)
InitChunk ==
    /\ ExecutorIdle
    /\ RenderIdle
    /\ AggregatorIdle
    /\ FactoryIdle
    /\ SplitterIdle
    /\ options \in [maxChunkSize : MaxChunkSizeValues,
                    maxFilesPerChunk : MaxFilesPerChunkValues,
                    minChunkSize : MinChunkSizeValues,
                    prioritizeHighRisk : BOOLEAN]
    /\ files = << >>
    /\ sortedFiles = << >>
    /\ packed = << >>
    /\ optimized = << >>
    /\ planned = << >>
    /\ planState = "idle"

\* createChunks(fs)
CreateChunks ==
    /\ planState = "idle"
    /\ \E n \in 0..MaxFiles : \E a \in [1..n -> FileAttributes] :
        /\ files' = FileList(a)
        /\ IF n = 0
           THEN /\ sortedFiles' = << >>
                /\ packed' = << >>
                /\ optimized' = << >>
                /\ planned' = << >>
           ELSE /\ sortedFiles' = (IF options.prioritizeHighRisk
                                   THEN SortFilesByPriority(files') ELSE files')
                /\ packed' = BinPackFiles(sortedFiles')
                /\ optimized' = OptimizeChunks(packed')
                /\ planned' = PrioritizeChunks(optimized')
    /\ planState' = "done"
    /\ UNCHANGED <<options, executorVars, aggregatorVars, factoryVars, splitterVars, renderVars>>

NextChunk == CreateChunks

SpecChunk == InitChunk /\ [][NextChunk]_vars

\* ========================================================= ResultAggregator
MaxFindings == 3

\* An issue title or a suggestion text is modelled by the tokens that
\* text.split(/\s+/) yields. Under the default threshold TitleA and TitleB are
\* similar (6 of 7 words shared), TitleB and TitleC are (7 of 8), TitleA and TitleC
\* are not (6 of 8).
TitleA == <<"SQL", "injection", "in", "user", "login", "query">>
TitleB == <<"sql", "injection", "in", "user", "login", "query", "builder">>
TitleC == <<"SQL", "Injection", "in", "user", "login", "query", "builder", "path">>
IssueTitles == {TitleA, TitleB, TitleC}

SuggestionTexts == {<<"Use", "parameterized", "queries">>, <<"Cache", "the", "lookup">>}

Severities == {"HIGH", "MEDIUM", "LOW"}
SuggestionTypes == {"security", "performance"}
FindingFiles == {"a.ts", "b.ts"}

\* Risk and Suggestion of review-agent.ts: the fields the aggregator reads.
RiskValues == [severity : Severities, file : FindingFiles, issue : IssueTitles]
SuggestionValues == [file : FindingFiles, type : SuggestionTypes, suggestion : SuggestionTexts]

\* aggregation.deduplicationThreshold of the default configuration, in percent.
DeduplicationThresholdPercent == 85

\* String.prototype.toLowerCase on a token.
ToLowerCase(w) ==
    CASE w = "SQL" -> "sql"
      [] w = "Injection" -> "injection"
      [] w = "Use" -> "use"
      [] w = "Cache" -> "cache"
      [] OTHER -> w

\* new Set(text.toLowerCase().split(/\s+/))
Words(text) == {ToLowerCase(text[k]) : k \in DOMAIN text}

\* calculateSimilarity: the Jaccard ratio, kept as numerator and denominator.
CalculateSimilarity(text1, text2) ==
    LET words1 == Words(text1)
        words2 == Words(text2)
    IN [intersection |-> Cardinality(words1 \cap words2),
        union |-> Cardinality(words1 \cup words2)]

\* similarity >= this.config.aggregation.deduplicationThreshold
MeetsThreshold(sim) ==
    IF sim.union > 0
    THEN 100 * sim.intersection >= DeduplicationThresholdPercent * sim.union
    ELSE 0 >= DeduplicationThresholdPercent

\* getSeverityValue
SeverityValue(severity) ==
    CASE severity = "HIGH" -> 3
      [] severity = "MEDIUM" -> 2
      [] severity = "LOW" -> 1
      [] OTHER -> 0

\* Slip: the file paths are not compared.
IsSimilarIssue_IgnoreFile(issue1, issue2) ==
    MeetsThreshold(CalculateSimilarity(issue1.issue, issue2.issue))

\* isSimilarIssue
IsSimilarIssue(issue1, issue2) ==
    /\ issue1.file = issue2.file
    /\ MeetsThreshold(CalculateSimilarity(issue1.issue, issue2.issue))

\* isSimilarSuggestion
IsSimilarSuggestion(sugg1, sugg2) ==
    /\ sugg1.file = sugg2.file
    /\ sugg1.type = sugg2.type
    /\ MeetsThreshold(CalculateSimilarity(sugg1.suggestion, sugg2.suggestion))

\* allRisks.push({...risk, chunkId: result.chunkId}) for the risks of one result
RECURSIVE TagRisks(_, _)
TagRisks(risks, chunkId) ==
    IF risks = << >> THEN << >>
    ELSE <<[severity |-> Head(risks).severity, file |-> Head(risks).file,
            issue |-> Head(risks).issue, chunkId |-> chunkId]>>
            \o TagRisks(Tail(risks), chunkId)

\* The first loop of deduplicateIssues: the risks of all results, in order.
RECURSIVE AllRisks(_)
AllRisks(rs) ==
    IF rs = << >> THEN << >>
    ELSE TagRisks(Head(rs).risks, Head(rs).chunkId) \o AllRisks(Tail(rs))

RECURSIVE TagSuggestions(_, _)
TagSuggestions(suggestions, chunkId) ==
    IF suggestions = << >> THEN << >>
    ELSE <<[file |-> Head(suggestions).file, type |-> Head(suggestions).type,
            suggestion |-> Head(suggestions).suggestion, chunkId |-> chunkId]>>
            \o TagSuggestions(Tail(suggestions), chunkId)

\* The first loop of deduplicateSuggestions.
RECURSIVE AllSuggestions(_)
AllSuggestions(rs) ==
    IF rs = << >> THEN << >>
    ELSE TagSuggestions(Head(rs).suggestions, Head(rs).chunkId) \o AllSuggestions(Tail(rs))

\* Slip: a merge keeps the severity of the issue found first.
MergeIssue_KeepFirstSeverity(similar, risk, k) ==
    [similar EXCEPT !.occurrences = @ + 1,
                    !.chunkIds = Append(@, risk.chunkId),
                    !.merged = Append(@, k)]

\* The merge branch of deduplicateIssues. `merged` is a history field: the positions
\* in allRisks of the risks this issue stands for.
MergeIssue(similar, risk, k) ==
    [similar EXCEPT !.occurrences = @ + 1,
                    !.chunkIds = Append(@, risk.chunkId),
                    !.severity = IF SeverityValue(risk.severity) > SeverityValue(@)
                                 THEN risk.severity ELSE @,
                    !.merged = Append(@, k)]

\* Slip: only the issue pushed last is compared with the risk.
AddRisk_CompareLast(aggregated, risk, k) ==
    IF aggregated # << >> /\ IsSimilarIssue(aggregated[Len(aggregated)], risk)
    THEN [aggregated EXCEPT ![Len(aggregated)] = MergeIssue(aggregated[Len(aggregated)], risk, k)]
    ELSE Append(aggregated,
                [severity |-> risk.severity, file |-> risk.file, issue |-> risk.issue,
                 chunkId |-> risk.chunkId, occurrences |-> 1,
                 chunkIds |-> <<risk.chunkId>>, merged |-> <<k>>])

\* The loop body of deduplicateIssues for allRisks[k] = risk: aggregated.find returns
\* the first similar issue.
AddRisk(aggregated, risk, k) ==
    LET similar == {j \in DOMAIN aggregated : IsSimilarIssue(aggregated[j], risk)} IN
    IF similar # {}
    THEN LET j == CHOOSE m \in similar : \A o \in similar : m <= o
         IN [aggregated EXCEPT ![j] = MergeIssue(aggregated[j], risk, k)]
    ELSE Append(aggregated,
                [severity |-> risk.severity, file |-> risk.file, issue |-> risk.issue,
                 chunkId |-> risk.chunkId, occurrences |-> 1,
                 chunkIds |-> <<risk.chunkId>>, merged |-> <<k>>])

RECURSIVE DeduplicateIssuesFrom(_, _, _)
DeduplicateIssuesFrom(all, k, aggregated) ==
    IF k > Len(all) THEN aggregated
    ELSE DeduplicateIssuesFrom(all, k + 1, AddRisk(aggregated, all[k], k))

\* deduplicateIssues
DeduplicateIssues(rs) == DeduplicateIssuesFrom(AllRisks(rs), 1, << >>)

\* The loop body of deduplicateSuggestions.
AddSuggestion(aggregated, suggestion, k) ==
    LET similar == {j \in DOMAIN aggregated : IsSimilarSuggestion(aggregated[j], suggestion)} IN
    IF similar # {}
    THEN LET j == CHOOSE m \in similar : \A o \in similar : m <= o
         IN [aggregated EXCEPT ![j] =
                [@ EXCEPT !.occurrences = @ + 1,
                          !.chunkIds = Append(@, suggestion.chunkId),
                          !.merged = Append(@, k)]]
    ELSE Append(aggregated,
                [file |-> suggestion.file, type |-> suggestion.type,
                 suggestion |-> suggestion.suggestion, chunkId |-> suggestion.chunkId,
                 occurrences |-> 1, chunkIds |-> <<suggestion.chunkId>>, merged |-> <<k>>])

RECURSIVE DeduplicateSuggestionsFrom(_, _, _)
DeduplicateSuggestionsFrom(all, k, aggregated) ==
    IF k > Len(all) THEN aggregated
    ELSE DeduplicateSuggestionsFrom(all, k + 1, AddSuggestion(aggregated, all[k], k))

\* deduplicateSuggestions
DeduplicateSuggestions(rs) == DeduplicateSuggestionsFrom(AllSuggestions(rs), 1, << >>)

\* The comparator of prioritizeFindings: negative when a sorts before b.
IssueCompare(a, b) ==
    LET severityDiff == SeverityValue(b.severity) - SeverityValue(a.severity) IN
    IF severityDiff # 0 THEN severityDiff ELSE b.occurrences - a.occurrences

\* Slip: the sort is left out.
PrioritizeFindings_Unsorted(issues) == issues

\* prioritizeFindings: issues.sort(comparator), a stable sort.
PrioritizeFindings(issues) ==
    LET pos(k) == 1 + Cardinality({j \in DOMAIN issues :
                        j # k /\ (IssueCompare(issues[j], issues[k]) < 0
                                    \/ (IssueCompare(issues[j], issues[k]) = 0 /\ j < k))})
    IN [p \in DOMAIN issues |-> issues[CHOOSE k \in DOMAIN issues : pos(k) = p]]

\* typeOrder of prioritizeSuggestions
TypeOrder(type) ==
    CASE type = "security" -> 4
      [] type = "performance" -> 3
      [] type = "best-practice" -> 2
      [] type = "code-quality" -> 1
      [] OTHER -> 0

\* The comparator of prioritizeSuggestions.
SuggestionCompare(a, b) ==
    LET typeDiff == TypeOrder(b.type) - TypeOrder(a.type) IN
    IF typeDiff # 0 THEN typeDiff ELSE b.occurrences - a.occurrences

\* prioritizeSuggestions
PrioritizeSuggestions(suggestions) ==
    LET pos(k) == 1 + Cardinality({j \in DOMAIN suggestions :
                        j # k /\ (SuggestionCompare(suggestions[j], suggestions[k]) < 0
                                    \/ (SuggestionCompare(suggestions[j], suggestions[k]) = 0
                                            /\ j < k))})
    IN [p \in DOMAIN suggestions |->
            suggestions[CHOOSE k \in DOMAIN suggestions : pos(k) = p]]

\* The findings a[from..to] as a sequence.
Slice(a, from, to) == [k \in 1..(to - from + 1) |-> a[from + k - 1]]

\* new ResultAggregator()
InitAggregate ==
    /\ ExecutorIdle
    /\ RenderIdle
    /\ PlannerIdle
    /\ FactoryIdle
    /\ SplitterIdle
    /\ AggregatorIdle

\* aggregate(results): either no results at all, or the results of two chunks that
\* carry the drawn findings between them.
Aggregate ==
    /\ aggState = "idle"
    /\ \/ /\ aggResults' = << >>
          /\ dedupRisks' = << >>
          /\ dedupSuggestions' = << >>
          /\ aggRisks' = << >>
          /\ aggSuggestions' = << >>
       \/ \E nr \in 0..MaxFindings : \E ns \in 0..(MaxFindings - nr) :
            \E r \in [1..nr -> RiskValues], s \in [1..ns -> SuggestionValues],
               cr \in 0..nr, cs \in 0..ns :
                /\ aggResults' =
                     <<[chunkId |-> 1, risks |-> Slice(r, 1, cr),
                        suggestions |-> Slice(s, 1, cs)],
                       [chunkId |-> 2, risks |-> Slice(r, cr + 1, nr),
                        suggestions |-> Slice(s, cs + 1, ns)]>>
                /\ dedupRisks' = DeduplicateIssues(aggResults')
                /\ dedupSuggestions' = DeduplicateSuggestions(aggResults')
                /\ aggRisks' = PrioritizeFindings(dedupRisks')
                /\ aggSuggestions' = PrioritizeSuggestions(dedupSuggestions')
    /\ aggState' = "done"
    /\ UNCHANGED <<executorVars, plannerVars, factoryVars, splitterVars, renderVars>>

NextAggregate == Aggregate

SpecAggregate == InitAggregate /\ [][NextAggregate]_vars

\* ======================================================= LLMProviderFactory
MaxCalls == 3

\* Arguments createProvider is called with, <<providerName, config.model, cache>>:
\* one provider under two spellings of its name, with and without a model
\* ("undefined": the field is absent) and with and without caching, a second
\* provider, and a name that is not registered.
CreateProviderArguments ==
    ({"openai", "OpenAI"} \X {"undefined", "gpt-4"} \X BOOLEAN)
        \cup {<<"claude", "undefined", TRUE>>, <<"llama", "undefined", TRUE>>}

\* providerName.toLowerCase()
NormalizeName(providerName) ==
    CASE providerName = "OpenAI" -> "openai"
      [] providerName = "Claude" -> "claude"
      [] OTHER -> providerName

\* this.providers.get(normalizedName): the registered classes and their aliases.
ProviderClass(normalizedName) ==
    CASE normalizedName \in {"claude", "anthropic"} -> "ClaudeProvider"
      [] normalizedName \in {"openai", "gpt"} -> "OpenAIProvider"
      [] OTHER -> "none"

\* `${normalizedName}-${config.model || 'default'}`; no registered name holds a '-',
\* so the string determines the pair and is kept as the pair.
CacheKey(normalizedName, model) ==
    <<normalizedName, IF model = "undefined" THEN "default" ELSE model>>

\* Number of createProvider calls started so far; the next call gets the next number.
Started == Len(returned) + Cardinality(pending)

\* Slip: the new instance is not stored.
SetInstance_NotStored(map, key, inst) == map

\* this.instances.set(cacheKey, provider)
SetInstance(map, key, inst) ==
    [k \in (DOMAIN map) \cup {key} |-> IF k = key THEN inst ELSE map[k]]

\* createProvider up to its first await: an unknown name throws, a cache hit returns
\* the cached instance, otherwise a new instance is constructed and initialize starts.
CreateProvider(providerName, model, cache) ==
    LET normalizedName == NormalizeName(providerName)
        cacheKey == CacheKey(normalizedName, model)
        call == [call |-> Started + 1, key |-> cacheKey, cache |-> cache,
                 startEpoch |-> cacheEpoch]
    IN
    /\ Started < MaxCalls
    /\ overlapped' = (overlapped \/ pending # {})
    /\ IF ProviderClass(normalizedName) = "none"
       THEN /\ returned' = Append(returned,
                    [call |-> call.call, key |-> cacheKey, cache |-> cache,
                     startEpoch |-> cacheEpoch, endEpoch |-> cacheEpoch,
                     outcome |-> "UNKNOWN_PROVIDER", inst |-> 0, hit |-> FALSE])
            /\ UNCHANGED <<instances, created, initialized, pending, cacheEpoch>>
       ELSE IF cache /\ cacheKey \in DOMAIN instances
       THEN /\ returned' = Append(returned,
                    [call |-> call.call, key |-> cacheKey, cache |-> cache,
                     startEpoch |-> cacheEpoch, endEpoch |-> cacheEpoch,
                     outcome |-> "ok", inst |-> instances[cacheKey], hit |-> TRUE])
            /\ UNCHANGED <<instances, created, initialized, pending, cacheEpoch>>
       ELSE /\ created' = created + 1
            /\ pending' = pending \cup
                    {[call |-> call.call, key |-> cacheKey, cache |-> cache,
                      startEpoch |-> cacheEpoch, inst |-> created + 1]}
            /\ UNCHANGED <<instances, initialized, returned, cacheEpoch>>
    /\ UNCHANGED <<executorVars, plannerVars, aggregatorVars, splitterVars, renderVars>>

\* `await provider.initialize(config)` completes: the instance is cached when caching
\* is enabled and returned.
InitializeCompletes(p) ==
    /\ p \in pending
    /\ pending' = pending \ {p}
    /\ initialized' = initialized \cup {p.inst}
    /\ instances' = (IF p.cache THEN SetInstance(instances, p.key, p.inst) ELSE instances)
    /\ returned' = Append(returned,
            [call |-> p.call, key |-> p.key, cache |-> p.cache,
             startEpoch |-> p.startEpoch, endEpoch |-> cacheEpoch,
             outcome |-> "ok", inst |-> p.inst, hit |-> FALSE])
    /\ UNCHANGED <<created, cacheEpoch, overlapped>>
    /\ UNCHANGED <<executorVars, plannerVars, aggregatorVars, splitterVars, renderVars>>

\* provider.initialize(config) rejects: createProvider rethrows, nothing is cached.
InitializeFails(p) ==
    /\ p \in pending
    /\ pending' = pending \ {p}
    /\ returned' = Append(returned,
            [call |-> p.call, key |-> p.key, cache |-> p.cache,
             startEpoch |-> p.startEpoch, endEpoch |-> cacheEpoch,
             outcome |-> "CREATION_ERROR", inst |-> 0, hit |-> FALSE])
    /\ UNCHANGED <<instances, created, initialized, cacheEpoch, overlapped>>
    /\ UNCHANGED <<executorVars, plannerVars, aggregatorVars, splitterVars, renderVars>>

\* clearCache, called when the cache holds something (on an empty cache it changes
\* nothing).
ClearCache ==
    /\ instances # << >>
    /\ instances' = << >>
    /\ cacheEpoch' = cacheEpoch + 1
    /\ overlapped' = (overlapped \/ pending # {})
    /\ UNCHANGED <<created, initialized, pending, returned>>
    /\ UNCHANGED <<executorVars, plannerVars, aggregatorVars, splitterVars, renderVars>>

InitFactory ==
    /\ ExecutorIdle
    /\ RenderIdle
    /\ PlannerIdle
    /\ AggregatorIdle
    /\ SplitterIdle
    /\ FactoryIdle

NextFactory ==
    \/ \E args \in CreateProviderArguments : CreateProvider(args[1], args[2], args[3])
    \/ \E p \in pending : InitializeCompletes(p)
    \/ \E p \in pending : InitializeFails(p)
    \/ ClearCache

SpecFactory == InitFactory /\ [][NextFactory]_vars

\* ==================================================== splitLargeFile
MaxDiffLen == 7

\* Characters of a diff: two letters and the newline.
NewLine == "\n"
DiffChars == {"a", "b", NewLine}

\* maxChunkSize values splitLargeFile is exercised with (characters).
SplitChunkSizes == {2, 3}

\* diff.split('\n'): the lines between the newlines; at least one line, possibly empty.
RECURSIVE SplitLines(_)
SplitLines(diff) ==
    IF \A k \in DOMAIN diff : diff[k] # NewLine THEN <<diff>>
    ELSE LET first == CHOOSE k \in DOMAIN diff :
                        diff[k] = NewLine /\ \A j \in 1..(k - 1) : diff[j] # NewLine
         IN <<SubSeq(diff, 1, first - 1)>> \o SplitLines(SubSeq(diff, first + 1, Len(diff)))

\* lines.join('\n')
RECURSIVE JoinLines(_)
JoinLines(lines) ==
    IF lines = << >> THEN << >>
    ELSE IF Len(lines) = 1 THEN Head(lines)
    ELSE Head(lines) \o <<NewLine>> \o JoinLines(Tail(lines))

\* {...file, diff: currentChunk.join('\n'), path: `${file.path} (part ${chunkIndex + 1})`}
\* The suffix is kept as two further path tokens.
FilePart(file, currentChunk, chunkIndex) ==
    [file EXCEPT !.diff = JoinLines(currentChunk),
                 !.path = file.path \o <<"part", chunkIndex + 1>>]

\* Slip: the line that triggers a flush is not carried into the next part.
SplitStep_DropsLine(st, line, file) ==
    LET lineSize == Len(line) + 1 IN
    IF st.currentSize + lineSize > options.maxChunkSize /\ st.currentChunk # << >>
    THEN [chunks |-> Append(st.chunks, FilePart(file, st.currentChunk, st.chunkIndex)),
          currentChunk |-> << >>, currentSize |-> 0, chunkIndex |-> st.chunkIndex + 1]
    ELSE [st EXCEPT !.currentChunk = Append(@, line), !.currentSize = @ + lineSize]

\* One iteration of the loop of splitLargeFile.
SplitStep(st, line, file) ==
    LET lineSize == Len(line) + 1
        flushed ==
            IF st.currentSize + lineSize > options.maxChunkSize /\ st.currentChunk # << >>
            THEN [chunks |-> Append(st.chunks, FilePart(file, st.currentChunk, st.chunkIndex)),
                  currentChunk |-> << >>, currentSize |-> 0, chunkIndex |-> st.chunkIndex + 1]
            ELSE st
    IN [flushed EXCEPT !.currentChunk = Append(@, line), !.currentSize = @ + lineSize]

RECURSIVE SplitFrom(_, _, _)
SplitFrom(st, lines, file) ==
    IF lines = << >> THEN st ELSE SplitFrom(SplitStep(st, Head(lines), file), Tail(lines), file)

\* splitLargeFile
SplitLargeFileOf(file) ==
    IF Len(file.diff) <= options.maxChunkSize THEN <<file>>
    ELSE LET st == SplitFrom([chunks |-> << >>, currentChunk |-> << >>, currentSize |-> 0,
                              chunkIndex |-> 0], SplitLines(file.diff), file)
         IN IF st.currentChunk # << >>
            THEN Append(st.chunks, FilePart(file, st.currentChunk, st.chunkIndex))
            ELSE st.chunks

\* new ChunkOrchestrator({maxChunkSize})
InitSplit ==
    /\ ExecutorIdle
    /\ RenderIdle
    /\ AggregatorIdle
    /\ FactoryIdle
    /\ SplitterIdle
    /\ options \in [maxChunkSize : SplitChunkSizes, maxFilesPerChunk : {10},
                    minChunkSize : {1}, prioritizeHighRisk : {TRUE}]
    /\ files = << >>
    /\ sortedFiles = << >>
    /\ packed = << >>
    /\ optimized = << >>
    /\ planned = << >>
    /\ planState = "idle"

\* splitLargeFile(file)
SplitLargeFile ==
    /\ splitState = "idle"
    /\ \E n \in 0..MaxDiffLen : \E d \in [1..n -> DiffChars] :
        /\ splitFile' = [path |-> <<"huge.ts">>, diff |-> SubSeq(d, 1, n),
                         category |-> "high-risk", complexity |-> 30]
        /\ splitParts' = SplitLargeFileOf(splitFile')
    /\ splitState' = "done"
    /\ UNCHANGED <<executorVars, plannerVars, aggregatorVars, factoryVars, renderVars>>

NextSplit == SplitLargeFile

SpecSplit == InitSplit /\ [][NextSplit]_vars

\* ======================================================== ReviewSynthesizer
MaxNavFiles == 3
MaxOverLimit == 1
MaxSynthesizeCalls == 2

\* Math.min(issues.length, 10), Math.min(issues.length, 15), Math.min(items.length, 10)
CriticalLimit == 10
MediumLimit == 15
SuggestionLimit == 10
\* aScore = a.risks * 10 + a.suggestions
NavRiskWeight == 10

\* Numbers of HIGH, MEDIUM and LOW risks of the AggregatedResult: none, one, and more
\* than the section prints.
HighCounts == {0, 1, CriticalLimit + MaxOverLimit}
MediumCounts == {0, MediumLimit + MaxOverLimit}
LowCounts == {0, 1}
\* Numbers of suggestions per type; "style" is a type groupSuggestionsByType has no
\* group for.
SecurityCounts == {0, SuggestionLimit + MaxOverLimit}
CodeQualityCounts == {0, 1}
StyleCounts == {0, 1}
\* risks and suggestions counters of a navigation.files entry
NavCounts == [risks : {0, 1}, suggestions : {0, 1}]

\* n findings of one kind, numbered first..first + n - 1.
RECURSIVE Findings(_, _, _)
Findings(kind, first, n) ==
    IF n = 0 THEN << >> ELSE <<[kind |-> kind, id |-> first]>> \o Findings(kind, first + 1, n - 1)

\* AggregatedResult.risks as aggregate returns it: by severity, HIGH first.
RiskList(h, m, l) ==
    Findings("HIGH", 1, h) \o Findings("MEDIUM", h + 1, m) \o Findings("LOW", h + m + 1, l)

\* AggregatedResult.suggestions, in an order that is not the order of the groups.
SuggestionList(cq, st, sec) ==
    Findings("code-quality", 1, cq) \o Findings("style", cq + 1, st)
        \o Findings("security", cq + st + 1, sec)

\* navigation.files with the given counters; the k-th entry has path k.
NavFileList(a) ==
    [k \in DOMAIN a |-> [path |-> k, risks |-> a[k].risks, suggestions |-> a[k].suggestions]]

\* issues.filter(r => r.severity === severity)
FilterKind(fs, kind) == SelectSeq(fs, LAMBDA f : f.kind = kind)

\* The first Math.min(items.length, limit) items.
Take(items, limit) == SubSeq(items, 1, Min(Len(items), limit))

CreateHeader == [section |-> "header", items |-> << >>]

\* createExecutiveSummary: the counts printed in the overview.
CreateExecutiveSummary(aggregated) ==
    [section |-> "summary",
     items |-> <<Len(FilterKind(aggregated.risks, "HIGH")),
                 Len(FilterKind(aggregated.risks, "MEDIUM")),
                 Len(FilterKind(aggregated.risks, "LOW")),
                 Len(aggregated.suggestions)>>]

\* Slip: every critical issue is printed.
CreateCriticalIssuesSection_NoLimit(issues) ==
    [section |-> "critical", items |-> issues]

CreateCriticalIssuesSection(issues) ==
    [section |-> "critical", items |-> Take(issues, CriticalLimit)]

CreateMediumPrioritySection(issues) ==
    [section |-> "medium", items |-> Take(issues, MediumLimit)]

CreateLowPrioritySection(issues) ==
    [section |-> "low", items |-> issues]

\* The keys of `grouped`, in insertion order.
SuggestionGroups == <<"security", "performance", "best-practice", "code-quality">>

\* The loop over Object.entries(grouped) from group g on: a heading and at most ten
\* items for every group that is not empty.
RECURSIVE SuggestionItemsFrom(_, _)
SuggestionItemsFrom(suggestions, g) ==
    IF g > Len(SuggestionGroups) THEN << >>
    ELSE LET items == FilterKind(suggestions, SuggestionGroups[g])
         IN (IF items = << >> THEN << >>
             ELSE <<[kind |-> "heading", id |-> g]>> \o Take(items, SuggestionLimit))
              \o SuggestionItemsFrom(suggestions, g + 1)

CreateSuggestionsSection(suggestions) ==
    [section |-> "suggestions", items |-> SuggestionItemsFrom(suggestions, 1)]

NavScore(file) == file.risks * NavRiskWeight + file.suggestions

\* navigation.files.sort((a, b) => bScore - aScore): the array as the stable sort
\* leaves it, higher score first.
SortNavigationFiles(fs) ==
    LET pos(k) == 1 + Cardinality({j \in DOMAIN fs :
                        j # k /\ (NavScore(fs[j]) > NavScore(fs[k])
                                    \/ (NavScore(fs[j]) = NavScore(fs[k]) /\ j < k))})
    IN [p \in DOMAIN fs |-> fs[CHOOSE k \in DOMAIN fs : pos(k) = p]]

\* createFileBreakdown prints the entries of the sorted array.
CreateFileBreakdown(sorted) ==
    [section |-> "files", items |-> sorted]

CreateStatisticsSection == [section |-> "statistics", items |-> << >>]

\* formatOutput: the sections pushed, in the order of the pushes. `sorted` is
\* navigation.files after the sort of createFileBreakdown.
FormatOutput(aggregated, sorted, includeLowSeverity) ==
    LET criticalIssues == FilterKind(aggregated.risks, "HIGH")
        mediumIssues == FilterKind(aggregated.risks, "MEDIUM")
        lowIssues == FilterKind(aggregated.risks, "LOW")
    IN <<CreateHeader, CreateExecutiveSummary(aggregated)>>
        \o (IF Len(criticalIssues) > 0
            THEN <<CreateCriticalIssuesSection(criticalIssues)>> ELSE << >>)
        \o (IF Len(mediumIssues) > 0
            THEN <<CreateMediumPrioritySection(mediumIssues)>> ELSE << >>)
        \o (IF includeLowSeverity /\ Len(lowIssues) > 0
            THEN <<CreateLowPrioritySection(lowIssues)>> ELSE << >>)
        \o (IF Len(aggregated.suggestions) > 0
            THEN <<CreateSuggestionsSection(aggregated.suggestions)>> ELSE << >>)
        \o (IF Len(aggregated.files) > 0
            THEN <<CreateFileBreakdown(sorted)>> ELSE << >>)
        \o <<CreateStatisticsSection>>

\* new ReviewSynthesizer() and the AggregatedResult object the caller holds.
InitSynthesize ==
    /\ ExecutorIdle
    /\ PlannerIdle
    /\ AggregatorIdle
    /\ FactoryIdle
    /\ SplitterIdle
    /\ AgentIdle
    /\ ParserIdle
    /\ synIncludeLow \in BOOLEAN
    /\ \E h \in HighCounts, m \in MediumCounts, l \in LowCounts,
          cq \in CodeQualityCounts, st \in StyleCounts, sec \in SecurityCounts :
        \E n \in 0..MaxNavFiles : \E a \in [1..n -> NavCounts] :
            synAggregated = [risks |-> RiskList(h, m, l),
                             suggestions |-> SuggestionList(cq, st, sec),
                             files |-> NavFileList(a)]
    /\ synBefore = synAggregated
    /\ synReports = << >>

\* synthesize(aggregated, prMetadata) on the object the caller holds: the sort of
\* createFileBreakdown works on navigation.files itself whenever the array is not
\* empty, and the rendered content is returned.
Synthesize ==
    /\ Len(synReports) < MaxSynthesizeCalls
    /\ synAggregated' = [synAggregated EXCEPT !.files = SortNavigationFiles(@)]
    /\ synReports' = Append(synReports,
                        FormatOutput(synAggregated, synAggregated'.files, synIncludeLow))
    /\ UNCHANGED <<synBefore, synIncludeLow>>
    /\ UNCHANGED <<executorVars, plannerVars, aggregatorVars, factoryVars, splitterVars,
                   agentVars, parserVars>>

NextSynthesize == Synthesize

SpecSynthesize == InitSynthesize /\ [][NextSynthesize]_vars

\* ============================================================== ReviewAgent
MaxReplyLen == 4

\* response.content is modelled by the pieces of text the parsers tell apart:
\*   "{" and "}"     the braces the pattern /\{[\s\S]*\}/ looks for
\*   "summaryField"  the JSON member "summary": "Refactor"
\*   "risksArray"    the JSON member "risks": ["r"]
\*   "risksString"   the JSON member "risks": "none"
\*   "prose"         text with no brace and none of the patterns of the fallback
\*   "summaryLine"   the line `Summary: Refactor`
\*   "riskLine"      the line `**HIGH**: Leak`
\*   "bulbLine"      a line starting with the light-bulb sign
FieldTokens == {"summaryField", "risksArray", "risksString"}
LineTokens == {"summaryLine", "riskLine", "bulbLine"}
ReplyTokens == {"{", "}", "prose"} \cup FieldTokens \cup LineTokens

Positions(content, tok) == {k \in DOMAIN content : content[k] = tok}

\* content.match(/\{[\s\S]*\}/): the text from the first "{" to the last "}" after
\* it; the empty sequence stands for null.
JsonMatch(content) ==
    LET opens == Positions(content, "{")
        closes == Positions(content, "}")
    IN IF opens = {} \/ closes = {} THEN << >>
       ELSE LET first == CHOOSE k \in opens : \A o \in opens : k <= o
                last == CHOOSE k \in closes : \A o \in closes : k >= o
            IN IF first < last THEN SubSeq(content, first, last) ELSE << >>

\* JSON.parse(text) returns: text is an object with no member or with one member.
\* (Two members need a comma, which no piece holds; any other piece or another brace
\* between the braces is a syntax error.)
JsonParses(text) ==
    \/ Len(text) = 2
    \/ Len(text) = 3 /\ text[2] \in FieldTokens

\* The object JSON.parse returns, as the set of its members.
JsonMembers(text) == {text[k] : k \in 2..(Len(text) - 1)}

\* parseMarkdownResponse
ParseMarkdownResponse(content) ==
    [outcome |-> "heuristic",
     summary |-> IF Positions(content, "summaryLine") # {}
                 THEN <<"Refactor">> ELSE content,
     risks |-> SelectSeq(content, LAMBDA t : t = "riskLine"),
     suggestions |-> SelectSeq(content, LAMBDA t : t = "bulbLine")]

\* Slip: a block that does not parse is not caught.
ParseReviewResponse_NoFallback(content) ==
    IF JsonMatch(content) = << >> THEN ParseMarkdownResponse(content)
    ELSE [outcome |-> "throws", summary |-> << >>, risks |-> << >>, suggestions |-> << >>]

\* parseReviewResponse: the try block, and the catch that falls back.
ParseReviewResponse(content) ==
    LET jsonMatch == JsonMatch(content) IN
    IF jsonMatch = << >> THEN ParseMarkdownResponse(content)
    ELSE IF JsonParses(jsonMatch)
         THEN [outcome |-> "strict",
               summary |-> IF "summaryField" \in JsonMembers(jsonMatch)
                           THEN <<"Refactor">> ELSE <<"No summary provided">>,
               risks |-> IF "risksArray" \in JsonMembers(jsonMatch) THEN <<"r">> ELSE << >>,
               suggestions |-> << >>]
         ELSE ParseMarkdownResponse(content)

InitAgent ==
    /\ ExecutorIdle
    /\ PlannerIdle
    /\ AggregatorIdle
    /\ FactoryIdle
    /\ SplitterIdle
    /\ SynthesizerIdle
    /\ ParserIdle
    /\ AgentIdle

\* reviewChunk after provider.generateReview resolved with `content`: the reply is
\* parsed and the AgentReviewResult is returned, or what the parser threw is rethrown.
ReviewChunkReply ==
    /\ agentState = "idle"
    /\ \E n \in 0..MaxReplyLen : \E content \in [1..n -> ReplyTokens] :
        /\ reply' = content
        /\ parsed' = ParseReviewResponse(content)
    /\ agentState' = (IF parsed'.outcome = "throws" THEN "failed" ELSE "returned")
    /\ UNCHANGED <<executorVars, plannerVars, aggregatorVars, factoryVars, splitterVars,
                   synthesizerVars, parserVars>>

\* reviewChunk when provider.generateReview rejected: the catch block rethrows.
GenerationFails ==
    /\ agentState = "idle"
    /\ agentState' = "failed"
    /\ UNCHANGED <<reply, parsed>>
    /\ UNCHANGED <<executorVars, plannerVars, aggregatorVars, factoryVars, splitterVars,
                   synthesizerVars, parserVars>>

NextAgent ==
    \/ ReviewChunkReply
    \/ GenerationFails

SpecAgent == InitAgent /\ [][NextAgent]_vars

\* ============================================================ properties
BatchOf(c) == (c - 1) \div config.maxConcurrentAgents

Dispatched(c) == invocations[c] > 0

Returned == pc \in {"fallbackDone", "done"} /\ request = "files"

\* Positions of the entries of a result / error list that belong to chunk c.
EntriesOf(list, c) == {k \in 1..Len(list) : list[k].chunkId = c}

\* The failure ratio exceeds 30%, counted on the chunk promises themselves.
FailedOverThreshold ==
    Cardinality(SettledFailed) * FallbackDenominator > chunks * FallbackNumerator

\* C1: batch barrier - a chunk of a later batch has its first agent call started only
\* when every chunk of every earlier batch has settled (fulfilled, or rejected after
\* its last attempt).
C1_BatchBarrier ==
    \A c \in ChunkIds, d \in ChunkIds :
        (BatchOf(c) < BatchOf(d) /\ Dispatched(d)) => Settled(c)

\* Witness of C1: a chunk of the second batch is running after a chunk of the first
\* batch used up its retries and was rejected.
C1_Witness ==
    \E c \in ChunkIds, d \in ChunkIds :
        /\ BatchOf(c) < BatchOf(d)
        /\ cstate[d] = "running"
        /\ cstate[c] = "rejected"
        /\ config.retryAttempts >= 1
        /\ invocations[c] = config.retryAttempts + 1

\* C2: peak concurrency - the reviewChunk calls started and not yet completed,
\* calls of timed-out attempts included, never number more than maxConcurrentAgents.
C2_PeakConcurrency ==
    Cardinality(calls) <= config.maxConcurrentAgents

\* C5: a chunk whose generation call failed with a non-retryable error kind gets no
\* further attempt: the agent is not invoked again for it (exactly once, when the
\* first attempt failed that way) and the chunk does not end up fulfilled.
C5_NonRetryableNotRetried ==
    \A c \in ChunkIds :
        lastError[c] \in NonRetryableKinds =>
            /\ cstate[c] \in {"backoff", "rejected"}
            /\ invocations[c] = attempt[c] + 1
            /\ (attempt[c] = 0 => invocations[c] = 1)

\* C6: fallback-to-summary - once executeWithFallback has returned with the policy
\* enabled and more than 30% of the chunks failed, the error list is empty, every
\* failed chunk has exactly one result, a placeholder with its id and exactly one
\* MEDIUM finding, and every succeeded chunk still has exactly its own agent result.
C6_FallbackSummary ==
    (Returned /\ config.fallbackToSummary /\ FailedOverThreshold) =>
        /\ errors = << >>
        /\ Len(results) = chunks
        /\ \A c \in SettledFailed :
              /\ Cardinality(EntriesOf(results, c)) = 1
              /\ \A k \in EntriesOf(results, c) :
                    /\ results[k].provider = "fallback"
                    /\ results[k].risks = <<"MEDIUM">>
        /\ \A c \in SettledOk :
              /\ Cardinality(EntriesOf(results, c)) = 1
              /\ \A k \in EntriesOf(results, c) : results[k] = AgentResult(c)

\* Witness of C6: the fallback triggered in a run with failed and succeeded chunks.
C6_Witness ==
    /\ Returned /\ config.fallbackToSummary /\ FailedOverThreshold
    /\ SettledFailed # {}
    /\ SettledOk # {}
    /\ \E k \in 1..Len(results) : results[k].provider = "fallback"

\* C7: chunk failures never abort - after a failure every chunk of the later batches
\* is still dispatched, executeParallel returns one entry per chunk, and when the
\* fallback did not trigger executeWithFallback returns each failed chunk exactly once
\* in the error list and each succeeded chunk exactly once in results.
C7_FailuresNeverAbort ==
    /\ (pc = "parallelDone" =>
          /\ \A c \in ChunkIds : Dispatched(c) /\ Settled(c)
          /\ Len(results) + Len(errors) = chunks)
    /\ (Returned => response # "failure")
    /\ ((Returned /\ ~(config.fallbackToSummary /\ FailedOverThreshold)) =>
          /\ Len(results) + Len(errors) = chunks
          /\ \A c \in SettledFailed :
                Cardinality(EntriesOf(errors, c)) = 1 /\ EntriesOf(results, c) = {}
          /\ \A c \in SettledOk :
                Cardinality(EntriesOf(results, c)) = 1 /\ EntriesOf(errors, c) = {})

\* Witness of C7: the request was answered with the fallback policy enabled after a
\* chunk of the first batch failed, a chunk of a later batch succeeded, and the
\* failures stayed within 30%.
C7_Witness ==
    /\ pc = "done" /\ request = "files"
    /\ config.fallbackToSummary /\ ~FailedOverThreshold
    /\ errors # << >>
    /\ \E c \in SettledFailed, d \in SettledOk : BatchOf(c) < BatchOf(d)

\* C8: total failure - when every chunk of a request with parsed files failed all of
\* its attempts, the handler answers with the failure response, not with a report.
C8_TotalFailureFails ==
    (pc = "done" /\ request = "files" /\ SettledFailed = ChunkIds) => response = "failure"

\* C9: timeout semantics - a call outliving its attempt's timeout leaves the attempt
\* failed (the chunk backs off, is rejected, or is on a later attempt); every agent
\* result comes from the attempt its chunk was fulfilled on, no chunk has two results;
\* and the late completion of such a call changes no promise and no result.
C9_StateInv ==
    /\ \A call \in calls :
          ~Live(call) =>
              \/ attempt[call.chunk] > call.attempt
              \/ (attempt[call.chunk] = call.attempt
                    /\ cstate[call.chunk] \in {"backoff", "rejected"}
                    /\ lastError[call.chunk] = TimeoutError)
    /\ \A c \in ChunkIds : Cardinality(EntriesOf(results, c)) <= 1
    /\ \A k \in 1..Len(results) :
          results[k].provider = "agent" =>
              /\ cstate[results[k].chunkId] = "fulfilled"
              /\ results[k].attempt = attempt[results[k].chunkId]
              /\ [chunk |-> results[k].chunkId, attempt |-> results[k].attempt] \notin calls

C9_LateCompletion ==
    \A call \in calls :
        (~Live(call) /\ call \notin calls') =>
            (cstate' = cstate /\ value' = value /\ results' = results /\ errors' = errors)

C10_ProgressCounts ==
    \A k \in 1..Len(notified) :
        /\ notified[k].total = chunks
        /\ notified[k].completed = notified[k].settledOk
        /\ notified[k].failed = notified[k].settledFailed

\* C3: chunk size bound - every chunk returned by createChunks has files that sum to
\* at most maxChunkSize, or holds exactly one file, whose diff alone exceeds it.
C3_ChunkSizeBound ==
    planState = "done" =>
        \A k \in DOMAIN planned :
            \/ SumSizes(planned[k].files) <= options.maxChunkSize
            \/ (Len(planned[k].files) = 1 /\ planned[k].files[1].size > options.maxChunkSize)

\* Witness of C3: the plan holds an oversized single-file chunk next to a chunk that
\* the merge pass built from two chunks.
C3_Witness ==
    /\ planState = "done"
    /\ Len(optimized) < Len(packed)
    /\ \E k \in DOMAIN planned : planned[k].totalSize > options.maxChunkSize
    /\ \E k \in DOMAIN planned : Len(planned[k].files) >= 2

\* C4: file-count bound - every chunk returned by createChunks holds at most
\* maxFilesPerChunk files, merged chunks included.
C4_FileCountBound ==
    planState = "done" =>
        \A k \in DOMAIN planned : Len(planned[k].files) <= options.maxFilesPerChunk

\* ------------------------------------------------ ResultAggregator claims
\* The input risks of the aggregate call, flattened in the order the code reads them.
InputRisks == AllRisks(aggResults)

InputSuggestions == AllSuggestions(aggResults)

\* The input positions an aggregated finding stands for.
Members(finding) == {finding.merged[k] : k \in DOMAIN finding.merged}

\* Two input risks the claim calls duplicates: same file path and titles whose
\* word sets have a Jaccard similarity of at least the threshold.
DuplicateRisks(j, k) ==
    /\ InputRisks[j].file = InputRisks[k].file
    /\ 100 * Cardinality(Words(InputRisks[j].issue) \cap Words(InputRisks[k].issue))
         >= DeduplicationThresholdPercent
              * Cardinality(Words(InputRisks[j].issue) \cup Words(InputRisks[k].issue))

\* C11: duplicate collapse - any two input risks on the same file whose titles are
\* similar enough are represented by one and the same AggregatedIssue (two such risks
\* alone give one issue with occurrences = 2).
C11_DuplicateCollapse ==
    aggState = "done" =>
        /\ \A j, k \in DOMAIN InputRisks :
            (j < k /\ DuplicateRisks(j, k)) =>
                \E m \in DOMAIN aggRisks : {j, k} \subseteq Members(aggRisks[m])
        /\ (Len(InputRisks) = 2 /\ DuplicateRisks(1, 2)) =>
                (Len(aggRisks) = 1 /\ aggRisks[1].occurrences = 2)

RECURSIVE SumOccurrences(_)
SumOccurrences(issues) ==
    IF issues = << >> THEN 0 ELSE Head(issues).occurrences + SumOccurrences(Tail(issues))

\* C12: merge bookkeeping - every input risk is counted in exactly one AggregatedIssue,
\* an issue's occurrences is the number (at least 1) of input risks merged into it, the
\* occurrences sum to the number of input risks, and an issue's severity is the maximum
\* severity among the risks merged into it.
C12_MergeBookkeeping ==
    aggState = "done" =>
        /\ \A k \in DOMAIN InputRisks :
            Cardinality({m \in DOMAIN aggRisks : k \in Members(aggRisks[m])}) = 1
        /\ \A m \in DOMAIN aggRisks :
            /\ Members(aggRisks[m]) \subseteq DOMAIN InputRisks
            /\ aggRisks[m].occurrences >= 1
            /\ aggRisks[m].occurrences = Cardinality(Members(aggRisks[m]))
            /\ \E k \in Members(aggRisks[m]) : InputRisks[k].severity = aggRisks[m].severity
            /\ \A k \in Members(aggRisks[m]) :
                SeverityValue(InputRisks[k].severity) <= SeverityValue(aggRisks[m].severity)
        /\ SumOccurrences(aggRisks) = Len(InputRisks)

\* Witness of C12: an issue that stands for several risks and took its severity from
\* one merged later than the first, next to another issue.
C12_Witness ==
    /\ aggState = "done"
    /\ Len(aggRisks) >= 2
    /\ \E m \in DOMAIN aggRisks :
        /\ aggRisks[m].occurrences >= 2
        /\ aggRisks[m].severity # InputRisks[aggRisks[m].merged[1]].severity

\* C13: no cross-file merging - two risks with different file paths are never merged
\* into one AggregatedIssue, and two suggestions are merged only if both their file
\* path and their category are equal.
C13_NoCrossFileMerge ==
    aggState = "done" =>
        /\ \A m \in DOMAIN aggRisks : \A j, k \in Members(aggRisks[m]) :
            InputRisks[j].file = InputRisks[k].file
        /\ \A m \in DOMAIN aggSuggestions : \A j, k \in Members(aggSuggestions[m]) :
            /\ InputSuggestions[j].file = InputSuggestions[k].file
            /\ InputSuggestions[j].type = InputSuggestions[k].type

\* Witness of C13: two risks with the same title on different files, kept as two
\* issues, while a third risk was merged into one of them.
C13_Witness ==
    /\ aggState = "done"
    /\ Len(aggRisks) = 2
    /\ aggRisks[1].issue = aggRisks[2].issue
    /\ aggRisks[1].file # aggRisks[2].file
    /\ \E m \in DOMAIN aggRisks : aggRisks[m].occurrences = 2

\* C20: risk ordering - for every adjacent pair of the risks list returned by aggregate
\* the earlier risk has strictly higher final severity, or equal severity and an
\* occurrence count at least that of the later one.
C20_RiskOrdering ==
    aggState = "done" =>
        \A k \in 1..(Len(aggRisks) - 1) :
            \/ SeverityValue(aggRisks[k].severity) > SeverityValue(aggRisks[k + 1].severity)
            \/ /\ aggRisks[k].severity = aggRisks[k + 1].severity
               /\ aggRisks[k].occurrences >= aggRisks[k + 1].occurrences

\* Witness of C20: the sort moved an issue whose severity was raised by a merge in
\* front of an issue found earlier, and ordered two issues of equal severity by their
\* occurrence counts.
C20_Witness ==
    /\ aggState = "done"
    /\ Len(aggRisks) >= 2
    /\ aggRisks # dedupRisks
    /\ \E k \in 1..(Len(aggRisks) - 1) :
        /\ aggRisks[k].severity = aggRisks[k + 1].severity
        /\ aggRisks[k].occurrences > aggRisks[k + 1].occurrences
        /\ aggRisks[k].merged[1] > aggRisks[k + 1].merged[1]

\* ----------------------------------------------- LLMProviderFactory claims
\* The settled createProvider calls that were made with caching enabled and returned
\* a provider.
CachedReturns == {k \in DOMAIN returned : returned[k].cache /\ returned[k].outcome = "ok"}

\* No clearCache emptied the cache between the start of the earlier and the return of
\* the later of the two calls.
SameEpoch(a, b) ==
    /\ returned[a].startEpoch = returned[a].endEpoch
    /\ returned[b].startEpoch = returned[b].endEpoch
    /\ returned[a].endEpoch = returned[b].startEpoch

\* C14: provider cache initialization is synchronized - for overlapping createProvider
\* calls with caching enabled and the same key at most one instance is initialized for
\* the key, every caller receives that instance, and no caller receives an instance
\* whose initialization has not completed.
C14_SynchronizedInit ==
    /\ \A a, b \in CachedReturns :
        (returned[a].key = returned[b].key /\ SameEpoch(a, b)) =>
            returned[a].inst = returned[b].inst
    /\ \A a \in CachedReturns : returned[a].inst \in initialized

\* C15: provider cache reuse and reset - with caching enabled and calls made one after
\* the other, calls with the same key return the identical instance, calls with
\* different keys return different instances, and after clearCache the next call for a
\* previously cached key initializes and returns a new instance.
C15_CacheReuseAndReset ==
    ~overlapped =>
        \A a, b \in CachedReturns :
            a < b =>
                /\ (returned[a].key = returned[b].key /\ SameEpoch(a, b)) =>
                        (returned[b].inst = returned[a].inst /\ returned[b].hit)
                /\ returned[a].key # returned[b].key =>
                        returned[a].inst # returned[b].inst
                /\ (returned[a].key = returned[b].key
                        /\ returned[a].endEpoch < returned[b].startEpoch) =>
                        /\ returned[b].inst # returned[a].inst
                        /\ returned[b].inst \in initialized
                        /\ (~\E c \in CachedReturns :
                                /\ c < b
                                /\ returned[c].key = returned[b].key
                                /\ returned[c].startEpoch = returned[b].startEpoch)
                            => ~returned[b].hit

\* Witness of C15: three calls one after the other under two spellings of one name;
\* the second was answered from the cache, clearCache followed, and the third
\* initialized a new instance.
C15_Witness ==
    /\ ~overlapped
    /\ Len(returned) = 3
    /\ \A k \in 1..3 : returned[k].cache /\ returned[k].outcome = "ok"
    /\ returned[1].key = returned[2].key /\ returned[2].key = returned[3].key
    /\ returned[2].hit /\ returned[2].inst = returned[1].inst
    /\ returned[2].endEpoch < returned[3].startEpoch
    /\ ~returned[3].hit /\ returned[3].inst # returned[1].inst

\* --------------------------------------------------- splitLargeFile claims
\* C16: split size bound - for a file whose diff length exceeds maxChunkSize, every
\* part returned by splitLargeFile has a diff length of at most maxChunkSize.
C16_SplitSizeBound ==
    (splitState = "done" /\ Len(splitFile.diff) > options.maxChunkSize) =>
        \A k \in DOMAIN splitParts : Len(splitParts[k].diff) <= options.maxChunkSize

\* The line sequences of the parts, one after the other.
RECURSIVE PartLines(_)
PartLines(parts) ==
    IF parts = << >> THEN << >>
    ELSE SplitLines(Head(parts).diff) \o PartLines(Tail(parts))

\* C17: split round trip - the line sequences of the parts, concatenated in part
\* order, are the line sequence of the original diff; the parts' paths carry the part
\* indices 1, 2, ... in order; a file whose diff is within maxChunkSize is returned
\* unchanged as a single element.
C17_SplitRoundTrip ==
    splitState = "done" =>
        /\ PartLines(splitParts) = SplitLines(splitFile.diff)
        /\ IF Len(splitFile.diff) <= options.maxChunkSize
           THEN splitParts = <<splitFile>>
           ELSE \A k \in DOMAIN splitParts :
                    splitParts[k].path = splitFile.path \o <<"part", k>>

\* Witness of C17: a diff split into at least three parts, one of them holding several
\* lines, with an empty line and lines of different content among them.
C17_Witness ==
    /\ splitState = "done"
    /\ Len(splitParts) >= 3
    /\ \E k \in DOMAIN splitParts : Len(SplitLines(splitParts[k].diff)) >= 2
    /\ \E k \in DOMAIN splitParts : splitParts[k].diff = << >>
    /\ \E j, k \in DOMAIN splitParts :
        /\ splitParts[j].diff # splitParts[k].diff
        /\ Len(splitParts[j].diff) = Len(splitParts[k].diff)
        /\ Len(splitParts[j].diff) > 0

\* ------------------------------------------------- chunk ordering claims
\* C18: high-risk first - with prioritization enabled, every chunk of the returned list
\* whose risk level is high precedes every chunk whose risk level is medium or low, so
\* the first chunk is high-risk whenever an input file is high-risk.
C18_HighRiskFirst ==
    (planState = "done" /\ options.prioritizeHighRisk) =>
        /\ \A j, k \in DOMAIN planned :
            (planned[j].riskLevel = "high-risk" /\ planned[k].riskLevel # "high-risk")
                => j < k
        /\ (\E f \in DOMAIN files : files[f].category = "high-risk")
                => planned[1].riskLevel = "high-risk"

\* The score the claim describes, for a chunk of the returned list; the average is
\* rounded to the nearest integer, halves up.
ClaimedScore(chunk) ==
    LET n == Len(chunk.files)
        weight == IF chunk.riskLevel = "high-risk" THEN 100
                  ELSE IF chunk.riskLevel = "medium-risk" THEN 50 ELSE 10
        high == Cardinality({k \in 1..n : chunk.files[k].category = "high-risk"})
        bonus == IF \E k \in 1..n : chunk.files[k].secure THEN 50 ELSE 0
    IN weight + 20 * high + ((2 * SumComplexity(chunk.files) + n) \div (2 * n)) + bonus

C21_NoSideEffects ==
    synReports # << >> => synAggregated = synBefore

\* The order of the sections of formatOutput.
SectionRank(section) ==
    CASE section = "header" -> 1
      [] section = "summary" -> 2
      [] section = "critical" -> 3
      [] section = "medium" -> 4
      [] section = "low" -> 5
      [] section = "suggestions" -> 6
      [] section = "files" -> 7
      [] OTHER -> 8

\* C22: reproducible rendering - two synthesize calls in a row on the same
\* AggregatedResult and metadata yield identical report text, and the sections that
\* are present are in the order header, executive summary, critical findings (at
\* most 10), medium findings (at most 15), low findings (only when enabled),
\* suggestions, per-file breakdown, statistics.
C22_ReproducibleRendering ==
    /\ Len(synReports) >= 2 => synReports[1] = synReports[2]
    /\ \A r \in DOMAIN synReports :
        LET report == synReports[r] IN
        /\ Len(report) >= 3
        /\ report[1].section = "header"
        /\ report[2].section = "summary"
        /\ report[Len(report)].section = "statistics"
        /\ \A k \in 1..(Len(report) - 1) :
              SectionRank(report[k].section) < SectionRank(report[k + 1].section)
        /\ \A k \in DOMAIN report :
              /\ report[k].section = "critical" => Len(report[k].items) <= CriticalLimit
              /\ report[k].section = "medium" => Len(report[k].items) <= MediumLimit
              /\ report[k].section = "low" => synIncludeLow

\* C22 witness: two renderings of a result with more critical and medium findings
\* than are printed, a low finding, and navigation.files not in score order.
C22_Witness ==
    /\ Len(synReports) = 2
    /\ synIncludeLow
    /\ Len(FilterKind(synBefore.risks, "HIGH")) > CriticalLimit
    /\ Len(FilterKind(synBefore.risks, "MEDIUM")) > MediumLimit
    /\ FilterKind(synBefore.risks, "LOW") # << >>
    /\ synBefore.suggestions # << >>
    /\ synBefore.files # SortNavigationFiles(synBefore.files)
    /\ Len(synReports[2]) = 8

\* C23: unstructured replies never fail a chunk - whenever the generation call
\* succeeded, reviewChunk returns a result with a summary, a risks list and a
\* suggestions list, whatever the reply text: a reply whose embedded block (the text
\* from its first "{" to its last "}") is valid JSON is parsed strictly, and a reply
\* without a block, or with a block that does not parse, goes through the heuristic
\* parser instead of raising an error.
C23_ReplyNeverFailsChunk ==
    reply # << >> \/ parsed.outcome # "none" =>
        /\ agentState = "returned"
        /\ parsed.outcome \in {"strict", "heuristic"}
        /\ DOMAIN parsed = {"outcome", "summary", "risks", "suggestions"}
        /\ parsed.summary \in Seq(ReplyTokens \cup {"Refactor", "No summary provided"})
        /\ parsed.risks \in Seq({"r", "riskLine"})
        /\ parsed.suggestions \in Seq({"bulbLine"})
        /\ parsed.outcome = "strict" <=>
              (JsonMatch(reply) # << >> /\ JsonParses(JsonMatch(reply)))
        /\ parsed.outcome = "heuristic" =>
              /\ Len(parsed.risks) = Cardinality(Positions(reply, "riskLine"))
              /\ Len(parsed.suggestions) = Cardinality(Positions(reply, "bulbLine"))

\* C23 witness: a reply whose block does not parse (a second "}" follows the object)
\* was handled by the heuristic parser, which found a risk line in it.
C23_Witness ==
    /\ agentState = "returned"
    /\ JsonMatch(reply) # << >>
    /\ ~JsonParses(JsonMatch(reply))
    /\ parsed.outcome = "heuristic"
    /\ parsed.risks # << >>

\* C24: an empty or malformed diff is never fatal - a diff from which no file path can
\* be extracted parses to zero files with zero totals and no error, and the handler
\* completes the request with the no-changes report whose metadata has 0 chunks, 0
\* files, 0 tokens and no providers, without calling the planner, the executor or any
\* generation call.
C24_EmptyDiffNotFatal ==
    (request # "none" /\ requestDiff # Undefined
        /\ \A k \in DOMAIN requestDiff : requestDiff[k] \notin PathLines) =>
        /\ parseResult = [files |-> << >>, totalAdditions |-> 0, totalDeletions |-> 0]
        /\ response = "noChanges"
        /\ pc = "done"
        /\ earlyResponse.status = 200
        /\ earlyResponse.chunks = 0
        /\ earlyResponse.files = 0
        /\ earlyResponse.totalTokens = 0
        /\ earlyResponse.providers = << >>
        /\ invoked = << >>
        /\ chunks = 0
        /\ invocations = << >>
        /\ calls = {}

\* C24 witness: a diff with a header that names no path and with added and removed
\* lines was answered with the no-changes report.
C24_Witness ==
    /\ response = "noChanges"
    /\ \E k \in DOMAIN requestDiff : requestDiff[k] = "bareHeader"
    /\ \E k \in DOMAIN requestDiff : requestDiff[k] = "added"
    /\ \E k \in DOMAIN requestDiff : requestDiff[k] = "removed"
    /\ parseResult.files = << >>

\* C25: bounded retry with capped exponential backoff - for each chunk the agent is
\* invoked at most retryAttempts + 1 times and never again after an attempt succeeded;
\* after failed attempt k (0-based) that is not the last allowed one the executor waits
\* min(1000 * 2^k, 5000) ms before the next attempt, and it does not wait after the
\* final failed attempt, which settles the chunk as failed with the last error.
C25_BoundedRetryBackoff ==
    \A c \in DOMAIN cstate :
        /\ invocations[c] <= config.retryAttempts + 1
        /\ cstate[c] # "pending" => invocations[c] = attempt[c] + 1
        /\ cstate[c] = "fulfilled" => invocations[c] = value[c].attempt + 1
        /\ \A k \in DOMAIN delays[c] :
              delays[c][k] = (IF 1000 * 2^(k - 1) <= 5000 THEN 1000 * 2^(k - 1) ELSE 5000)
        /\ cstate[c] \in {"running", "fulfilled"} => Len(delays[c]) = attempt[c]
        /\ cstate[c] = "backoff" =>
              Len(delays[c]) = attempt[c] + 1 /\ attempt[c] < config.retryAttempts
        /\ cstate[c] = "rejected" =>
              /\ attempt[c] = config.retryAttempts
              /\ Len(delays[c]) = config.retryAttempts
              /\ lastError[c] # "null"
              /\ pc = "parallelDone" =>
                    \E k \in DOMAIN errors : errors[k] = [chunkId |-> c, error |-> lastError[c]]

\* C25 witness: a chunk failed five attempts, waited 1000, 2000, 4000 and the capped
\* 5000 ms between them, and was reported as failed.
C25_Witness ==
    /\ pc = "parallelDone"
    /\ \E c \in DOMAIN cstate :
        /\ cstate[c] = "rejected"
        /\ delays[c] = <<1000, 2000, 4000, 5000>>
        /\ invocations[c] = 5

\* C28: execution always terminates - whatever the backend does, including agent calls
\* that never complete, executeParallel eventually returns (timers fire), and at that
\* point every chunk has settled and progress.completed + progress.failed equals
\* progress.total.
C28_ExecutionTerminates ==
    /\ (pc = "await") ~> (pc = "parallelDone")
    /\ [](pc = "parallelDone" =>
            /\ \A c \in ChunkIds : Settled(c)
            /\ progress.total = chunks
            /\ progress.completed + progress.failed = progress.total)

\* C28 witness: executeParallel returned for several chunks while agent calls that
\* never completed are still outstanding.
C28_Witness ==
    /\ pc = "parallelDone"
    /\ chunks >= 2
    /\ Cardinality(calls) >= 2
    /\ \A c \in ChunkIds : Settled(c)

\* The highest risk category among the files of a chunk.
RECURSIVE HighestCategory(_)
HighestCategory(fs) ==
    IF Len(fs) = 1 THEN Head(fs).category
    ELSE LET rest == HighestCategory(Tail(fs))
         IN IF RiskPriority(Head(fs).category) >= RiskPriority(rest)
            THEN Head(fs).category ELSE rest

\* C26: chunk risk level is the maximum over its members - for any file list and any
\* options (prioritization enabled or disabled), every chunk returned by createChunks
\* has the highest risk category among its files as its risk level, also after files
\* were added to an existing chunk and after two chunks were merged.
C26_ChunkRiskIsMax ==
    planState = "done" =>
        \A k \in DOMAIN planned : planned[k].riskLevel = HighestCategory(planned[k].files)

\* A sequence holds no element twice.
NoRepeats(ids) == \A j, k \in DOMAIN ids : j # k => ids[j] # ids[k]

\* C27: originating chunk ids form a set - the chunkIds of every AggregatedIssue and
\* AggregatedSuggestion hold no chunk id more than once, also when one chunk result
\* holds several findings that are merged together.
C27_ChunkIdsFormSet ==
    aggState = "done" =>
        /\ \A k \in DOMAIN aggRisks : NoRepeats(aggRisks[k].chunkIds)
        /\ \A k \in DOMAIN aggSuggestions : NoRepeats(aggSuggestions[k].chunkIds)

\* The paths of the files of the chunks, chunk after chunk.
RECURSIVE ChunkPaths(_)
ChunkPaths(cs) ==
    IF cs = << >> THEN << >>
    ELSE [k \in DOMAIN Head(cs).files |-> Head(cs).files[k].path] \o ChunkPaths(Tail(cs))

\* C29: chunk planning partitions the input - for a non-empty file list every input
\* file is in exactly one chunk returned by createChunks (none dropped, none
\* duplicated, also across the merge pass), chunk ids are pairwise distinct, and each
\* chunk's totalSize is the sum of its files' diff lengths with
\* estimatedTokens = ceil(totalSize / 4).
C29_PlanningPartitions ==
    (planState = "done" /\ files # << >>) =>
        /\ Len(ChunkPaths(planned)) = Len(files)
        /\ \A f \in DOMAIN files :
              Cardinality({p \in DOMAIN ChunkPaths(planned) :
                              ChunkPaths(planned)[p] = files[f].path}) = 1
        /\ \A j, k \in DOMAIN planned : j # k => planned[j].id # planned[k].id
        /\ \A k \in DOMAIN planned :
              /\ \A m \in DOMAIN planned[k].files :
                    \E f \in DOMAIN files : planned[k].files[m] = files[f]
              /\ planned[k].totalSize = SumSizes(planned[k].files)
              /\ 4 * planned[k].estimatedTokens >= planned[k].totalSize
              /\ 4 * (planned[k].estimatedTokens - 1) < planned[k].totalSize

\* C29 witness: three files were packed into three chunks, two of which the merge
\* pass combined, and the chunks returned are in another order than they were packed.
C29_Witness ==
    /\ planState = "done"
    /\ Len(files) = 3
    /\ Len(packed) = 3
    /\ Len(planned) = 2
    /\ planned[1].id > planned[2].id

\* C30: deduplicated issues are pairwise distinct - in the output of aggregate no two
\* AggregatedIssues have the same file path and issue titles whose Jaccard similarity
\* reaches the configured threshold, whatever the order of the risks.
C30_IssuesPairwiseDistinct ==
    aggState = "done" =>
        \A j, k \in DOMAIN aggRisks :
            (j # k /\ aggRisks[j].file = aggRisks[k].file) =>
                LET words1 == Words(aggRisks[j].issue)
                    words2 == Words(aggRisks[k].issue)
                IN 100 * Cardinality(words1 \cap words2)
                     < 85 * Cardinality(words1 \cup words2)

\* C30 witness: two issues on the same file are kept apart (their titles share 6 of 8
\* words) although a third risk, similar to both, was merged into one of them.
C30_Witness ==
    /\ aggState = "done"
    /\ \E j, k \in DOMAIN aggRisks :
        /\ j # k
        /\ aggRisks[j].file = aggRisks[k].file
        /\ aggRisks[j].occurrences = 2
        /\ aggRisks[k].occurrences = 1

====
